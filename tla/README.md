# Telefonagent: TLA+ models and proofs

Telefonagent is a multi-tenant service whose voice agent answers telephone calls
(Twilio) and browser conversations, finds appointments in Google or Microsoft
calendars, books them, and documents and analyses each call. The backend is
FastAPI with SQLAlchemy on PostgreSQL (`src/backend/app`), the frontend React
(`src/frontend/src`).

This directory holds TLA+ models of the parts where concurrency, failure and order
decide whether the program is right, the TLC configurations that check them on
small instances, and TLAPS proofs for every size of instance. Every definition is
translated from the source; `PROJECT.json` maps each to its lines.

## Inventory

| Component | State | Operations | What makes it hard | What makes it right |
|---|---|---|---|---|
| **Calendar booking** `services/calendar_booking.py`, `calendar_configuration.py`, `calendar/providers/*` | `calendar_bookings` rows, advisory locks, events at the provider | `create()` | event loops of several processes, commits that release locks, provider failures, crashes between row and event | overlapping bookings exclude each other; one event per confirmed booking; every call is answered |
| **Telephone call record** `services/call_lifecycle.py`, `call_processing.py`, `call_analysis.py`, `api/v1/calls.py`, `api/v1/twilio.py` | `call_sessions`: status, documentation, transcript, analysis | connect, save_segment, finish, status callback, claim/analyse, recovery, retry, deletion | reports in any order and repeated, leases, late answers, deletion during work | stored analysis fits the transcript; erased stays erased; first end decides; every call settles |
| **Booking conversation** `services/conversation_orchestrator.py`, `booking_orchestrator.py`, `conversation_tools.py`, `tool_audit.py` | `booking_conversations`: state, service, wish, slot, customer, version, digest | eight tools, bootstrap | long conversations of tools, a bootstrap beside them, pending changes over awaits, unlocked row, calls broken off, versions of a confirmation | booked as told, once, only what was agreed; no dead end |
| **Availability search** `services/availability.py`, `availability_snapshot.py` | busy-interval snapshot per call | search, exact check, refresh | interval arithmetic at boundaries, a snapshot that ages | offered slots are free and inside the hours |
| **Telephone media bridge** `services/twilio_media.py` | playback state, bounded queue, segments and their states, latest utterance, three tasks | audio out, marks, interruption, transcripts, tools, stop, drain | marks that return late, a full queue in the middle of an event, transcriptions out of order, a hang-up at any time | what was heard decides where an answer is cut; what was cut is stored as cut; a tool is told the latest utterance; a stop ends the run |
| **Browser realtime attempts** `services/realtime.py` | `call_sessions` rows of browser attempts | bootstrap, connected, finish, abandon stale | unlocked selection of stale attempts, reports before, during and after the bootstrap | one outcome per attempt; no secret for a finished one |
| **Browser voice client** `features/realtime/*.ts` | refs of the hook, session, transport and microphone, sessionStorage; response, tool and playback state of the data channel | start, end, errors, time limit, page hidden, left or reloaded; events of the model, tool results, interruption | answers that come after the end, cleanups that wait for the network, a continuation that never comes | only the newest start holds anything; a live session is connected in the backend; an attempt is reported; one execution per tool call |
| **Calendar connections, OAuth** `services/calendar_connections.py`, `calendar_oauth.py`, `calendar_configuration.py` | one connection: status, tokens, expiry; its calendars and the target; OAuth states | connect, callback, refresh, synchronise, test, select, disconnect | requests that keep a copy of the row over a call to the provider and then write the columns they changed | a new authorization is asked for when it is needed; a disconnected connection has no tokens; the target can be written to |
| **Authentication** `services/authentication.py`, `api/v1/auth.py`, `login_throttle.py` | sessions, password hash, `must_change_password`, reset tokens, throttle counters | login, choice of company, logout, password changed by the user, a manager, an operator, a token | a handler that commits what it decided after others have committed | a session ends with the password and the access it was opened with; a token works once |
| **Accounts, invitations, provisioning** `services/account_lifecycle.py`, `account_management.py`, `provisioning.py`, `initial_setup.py`, `api/v1/platform.py`, `company.py` | users, platform roles, companies, memberships, invitations, the setup row | create, invite, accept, revoke, update, transfer, suspend, provision, promote, deactivate | long legal sequences, handlers that overtake each other between their reads and their commit | an invitation works once; a company keeps its primary administrator, the platform its owner; nobody works for two companies |
| **Phone numbers, inbound routes** `services/twilio.py`, `tenant_resolution.py` | numbers, routes, their state at Twilio | assign, release, activate, resolve | provider calls between commits | a number routes to at most one company |
| **Agent configuration, prompts** `services/agent_configuration.py`, `prompt_compiler.py`, ... | versioned configuration | edit, publish | little: text | - |
| **German dates** `services/german_datetime.py` | none | resolve | calendar arithmetic | a result lies in the horizon |
| **API handlers, web pages, audit, mail, scripts** | none of their own | request and response | - | - |

How they interact: a tool call (HTTP from the browser, or in-process from the
telephone bridge) runs `ConversationToolDispatcher`; `finalize()` calls
`CalendarBookingService.create()`; both read availability and tokens and write
through the same database session. The bridge saves segments with the call's session
and reports the end of the call; the processing loop (every five seconds in each
process) recovers, analyses and erases calls. Everything meets in PostgreSQL: READ
COMMITTED, row locks (`FOR UPDATE`), advisory transaction locks and unique
constraints; sessions use `autoflush=False` and `expire_on_commit=False`.

`PROJECT.json` lists the hazards of this code one by one, with the properties that
cover them.

## Modules

| Module | Models | Abstractions |
|---|---|---|
| `BookingLedger` | abstract specification of a tenant's bookings: hold, settle, free, repeat, refuse; a call that loses its protection lapses | no rows, locks, processes, provider |
| `CalendarBooking` | `create()` of concurrent calls in several processes: existing key, availability check, advisory lock, recheck with its hidden commit, conflict query, insert, token, provider, confirmation, crashes | slots are intervals with buffers; the busy times of the provider are a free choice |
| `CallDocument` | abstract specification of a call's record: write, end, publish, erase | no revisions, leases, attempts, processes |
| `CallRecord` | one call with its streams, callbacks, workers, retries and deletion | a transcript maps segments to absent, provisional, interrupted or confirmed; an analysis is the transcript it was made from |
| `CallQueue` | extends `CallRecord` by the work queue of its tenant, which takes up the oldest hundred candidates | the other calls are one fact: whether a hundred of them stand before this one |
| `BookingAgreement` | abstract specification of one conversation: offer, agree, hold, settle, announce, reopen | no sessions, copies, slots, dialogue states |
| `BookingConversation` | one conversation: its row, the copies of the sessions, all tools, `prepare()`, `finalize()`, the bootstrap beside them | services, times, customers are model values; the digest is the summary itself; `create()` is reduced to the steps its row shows (its own module has the rest) |
| `RealtimeAttempt` | the rows of browser attempts: bootstrap with its stale scan and the provider, connected, finish, restart | ended, cancelled and failed are one status; a row is old once its cutoff has passed |
| `VoiceSession` | extends `RealtimeAttempt` by one browser: `useRealtimeVoice`, `connect()` and `close()` of its client, sessionStorage, requests on their way | no audio, no events of the model; a press of the button is named after the attempt it may make |
| `TwilioMedia` | the bridge of one telephone call: `run()` with its setup and drain, the sender, the receiver of Twilio, the handler of the model's events, `PlaybackState`, Twilio's buffer | audio is counted in frames, one mark each; text is absent, provisional, confirmed or interrupted |
| `CalendarConnections` | one connection of a company: every handler that writes it, with the copies requests keep, and the provider's side (tokens issued, revoked, expired) | a token is known by its authorization and serial number |
| `Sessions` | one user: access, password, reset tokens, sessions, and every handler that writes them | a password is a number; times are left out: what expires is what nobody uses any more |
| `Accounts` | users, companies, memberships, invitations: every handler that writes them, behind the guards of its router | a person is one user name with one e-mail address; sessions and passwords are in `Sessions` |
| `MC*` | instances for TLC | |
| `*Proofs` | theorems and proofs | |

### CalendarBooking

One action is one database statement whose result later code depends on, or one
await. `pc` names the place inside `create()`; between two awaits no other call of
the same process runs (`LoopFree`, `Synchronous`). `lock` holds advisory locks by
exact interval (`LockKey`), released by every commit, rollback or death
(`LocksWithout`); `load_rules` commits when the configured timezone differs from the
call's (`Recheck`), which is how a lock is lost; the history variable `lost` keeps the
calls it happened to before they inserted. `Serialized` says which calls the code keeps
apart: those of one process, and those of one interval that kept their lock. `row` is the row of a call:
pending, confirmed, failed or diverged. `ProviderAccepts` may happen although the
answer is lost, and answers 409 for an existing event as success.

### CallRecord

Each transaction under `FOR UPDATE` is an action; what a coroutine keeps over an
await is in `stream[s]` and `worker[w]`. `due` abstracts
`analysis_next_attempt_at` to never, later or now, and `TimePasses` moves it. The
bounds on callbacks, retries and revisions are guards of the actions that count.
`CallQueue` adds `crowded`: other calls may crowd this one out of the hundred
candidates a cycle selects and make room again at any time (`OthersChange`), and a
worker takes the call up (`Takes`) only when it is not crowded out.

### BookingConversation

`ctx` is the committed row, `mine[s]` the copy in a session, `read[s]` that copy as
loaded: a commit writes only the columns that differ (`Committed`), as the unit of
work does. A tool starts by loading the row, then works on its copy; `Flushes` are
the commits that happen inside an await (a snapshot refresh, a recorded connection
error, a saved segment), so pending changes can become visible early. On the
telephone one session runs one tool at a time, and an error that leaves a tool
without `audit.complete()` keeps its pending change for the next commit
(`Escapes`). In a browser tools have sessions of their own. Clients ask for one tool at a time
(`parallel_tool_calls: false`); that requests may overlap all the same is the third
value of `channel`, `"tabs"`. The browser sends the bootstrap request when the call is
connected and does not wait for it (`useRealtimeVoice.ts:456`), so it runs beside the
tools of every browser call. `boot` is where it is and the state in its copy of the row
(`BootstrapStarts`, `Bootstrap`, `BootstrapEnds`, `BootstrapFails`); its transitions are
checked against that copy, and its commit writes the state over whatever the tools have
made of it meanwhile (`Overwrites`). The history variable `reopened` says that this hit
a booking that ran or was confirmed. `told`
records what `prepare()` answered, `agreed` which versions were confirmed, `broken`
that some call broke off.

### RealtimeAttempt and VoiceSession

A transaction of the backend is one action; `boot[a]` is where the handler of an
attempt's bootstrap request stands, `stale[a]` the rows it read as stale and will
write by primary key. The actions take any attempt at any time (`ServerSpec`).

In the page a stretch of JavaScript between two awaits is one action. `start[a]` is
where the press of the button stands, `fresh` the attempt whose generation is the
current one, `current`, `client`, `starting` and `cleanup` are the refs of the hook,
`stored` the id in sessionStorage, `open` and `mic` the clients and microphone
streams that nothing has stopped, and a member of `reports` a finish request with
the requests left and what waits for its answer (`Settled`). `Close` is
`closeResources`, `Fails` the catch of `start()`. The handling of a report by the
backend and its answer are one step, but the answer may be lost and the report
tried again; a report may also be lost before it arrives. After `Unload` the
requests already sent go on without a page. `Mount` is a new instance of the hook
with refs of its own.

### TwilioMedia

`phase` is where `run()` stands. The handler of one event of the model is not one
step: `todo` holds what it has still to do, since it waits wherever the outbound
queue is full or a tool runs (`Continue`), and no other event is handled meanwhile
(`Receives`). `playback`, `interrupted`, `segment` (`segment_states`), `latest` and
`utterance` are the attributes of the bridge; `recorded` is what the transcript sink
was last given. `buffer` is what Twilio has still to play, `heard` what it has
played, `inbox` what it has sent back. A clear drops the buffer and returns its marks,
which is when an old mark meets a new item. A lost socket, a refused event, the
silence of Twilio and the maximum duration all cancel the tasks wherever they wait
(`Fails`).

### CalendarConnections

Sessions keep what they have loaded (`expire_on_commit=False`), so a request holds
in `request[r].seen` a copy of the row over its calls to the provider; its commit
writes the columns that differ from that copy (`Changes`) into a row that may be
another by then, and fails if the row is gone (`Gone`). `upsert_calendar_metadata()`
reads the calendars (`ListReply`) and commits later (`UpsertCalendarMetadata`); nothing
else of the event loop runs in between (`LoopIsFree`), but the choice of the booking
calendar runs in a thread (`LoadSelection`, `CommitSelection`). The history variable
`consent` is the user's last word: given by an authorization, withdrawn by a
disconnection, or overrun when a late commit wrote over the disconnection. Calls to the provider are
two steps: the provider acts (`RefreshAtProvider`), the answer is used
(`RefreshReply`). `revoked` is the last authorization the provider refuses, `expired`
the last token that has run out. `Rotates` and `Revokes` tell Google
(no new refresh token; revocation) from Microsoft (a new one; none).

### Accounts and Sessions

Handlers are synchronous and commit once, but run in threads and lock next to
nothing: each reads its rows, decides, and commits. `Finish(w)` lets a handler with
decision `w` commit at once or be `held`; a held handler writes the columns of
`w` that differed from the rows as it read them (`Changed`), whatever they are by
then (`Resume`), or is rolled back by a unique index (`Valid`, `Added`) or by its death
(`Dies`). `Accounts` counts the commits in between (`overtaken`); `Sessions` keeps what
they did (`since`): the sessions they opened, the tokens they sent, whether one replaced
the password or deactivated the user. Only an invitation and a reset
token are locked (`FOR UPDATE`, `Locked`). History variables count how often an
invitation was accepted (`acceptances`) and a token used (`uses`), and keep the tokens
and sessions that handlers running at the same time account for (`doubled`, `excused`).
A login whose hash was made with earlier parameters hashes the password it read anew
(`outdated`, `Login`). In `Accounts`, `Unique` is the two partial
unique indexes of migration 0014: one owner, one active primary administrator per
company. The guards of the routers are operators of their own (`PlatformActor`,
`OwnerActor`, `CompanyAdmin`, `AccountManager`, `ChangesRoles`); `Next` lists the
routers.

## Runs

| Run | Checks | Instance |
|---|---|---|
| `booking` | `SerializedBookingsDisjoint`, `ConfirmedMeansOneEvent`, `EveryCallEnds`, `ImplementsLedger` | 3 calls (two share a process), 2 keys, 2 slots that meet only through a buffer; a change of the timezone beside 2 calls of one or two processes |
| `booking_token` | `ProviderErrorsFail` violated | 1 call |
| `call` | `RecordIsCurrent`, `ClaimsBounded`, `NothingTakenBack`, `ImplementsDocument`, `EndsAndSettles` | 2 streams, 2 workers, 1 segment, 2 attempts, 2 revisions, 1 callback, 1 retry, a queue that may be crowded |
| `conversation` | `BookedAsTold`, `OneBookingPerCall`, `ConfirmedAndAgreed`, `NoDeadEnd`, `ImplementsAgreement` | 2 sessions beside the bootstrap, of requests that overlap each is a `finalize()`, 2 services, 2 times, 2 customers, 2 versions |
| `voice` | `SessionIsCurrent`, `ReportsKept`, `ServerDecides`, `StartSettles` | 2 attempts, 1 report at most outlives a page, no press beside a waiting press |
| `voice_microphone` | `MicrophoneReleased` violated | 2 attempts |
| `voice_double` | `OneSession` violated | 3 attempts, a press beside a waiting press |
| `bridge` | `TruncateWithinHeard`, `CutIsMarked`, `InterruptedIsRecorded`, `ToolHearsLatest`, `StopEndsRun` | 2 items, 3 frames, 2 utterances, a queue of 2 |
| `connections` | `ReauthorizationIsTrue`, `StaysDisconnected`, `TargetWritable` | 2 requests, 2 authorizations, 3 tokens, 1 calendar, Google |
| `sessions` | `SessionsEnd`, `TokensOnce` | 2 companies, 2 sessions, 2 tokens, 2 new passwords, 1 handler held over 1 commit |
| `accounts` | `InvitationsOnce`, `LeadersStay`, `OneCompany` | 2 people, 2 companies, an invitation and one that replaces it, 1 handler held over 1 commit |
| `accounts_primary` | `PrimaryStays` violated | 2 people, 1 company, 1 invitation, no handler held |

The larger run of each module also checks its type invariant. A property that joins
several promises of one component is their conjunction: `RecordIsCurrent`
(`ResultIsCurrent`, `DeletedStaysErased`), `NothingTakenBack` (`CompleteIsFinal`,
`EndIsFinal`, `CompletedLasts`, `FinalTextLasts`), `SessionIsCurrent` (`HeldByNewest`,
`LiveMeansConnected`), `ReportsKept` (`Recoverable`, `KeptUntilReported`),
`ServerDecides` (`OneOutcome`, `CancelledGetsNoSecret`), `ConfirmedAndAgreed`
(`BookedMeansConfirmed`, `OnlyAgreedBooked`), `LeadersStay`
(`PrimaryProtected`, `OwnerStays`).

Why the bounds are enough. Booking: two calls make every conflict, the third makes
the case of a repeated key beside a conflicting one, and of two calls in one process
beside one in another; two slots, one of them with a buffer, give identical,
overlapping and disjoint intervals. r1 and r2 are interchangeable, and so are the
keys, so that one order of each is enough (`Ordered`). The timezone changes once, and beside two
calls only, of one process or of two (`OneZoneOrTwoCalls`): a change takes the lock of
one call, and the other is the one it was needed against. The proofs have no such bound.
Call: two streams and two workers race in every pair; a second attempt takes over from a
first that died, and at two the count is at its limit (three in the code); a
second revision is a segment that arrives during or after an analysis. Liveness is
checked on the same instance. Conversation: two values of each
kind distinguish old from new; two versions a stale from a current one. Two
`finalize()` that overlap meet in every order (`OnlyAnswersOverlap`). The bootstrap
reads the row before the first tool has changed it, as the client's does, and may end
at any point up to the first booking and after it, but before a second summary
(`BootsEarly`). That other tools overlap, and a later bootstrap, is left to the proofs,
which have neither bound.
Voice: two attempts are an old and a new one, and each step of either may come
before each of the other; one report that outlives a page (`MaxLeft`) meets the
report that the next page sends for the same attempt. The proofs have neither bound.
Bridge: two items, since a mark of the one must meet the other; three frames, so that
an item can be partly heard when the next begins; two utterances, so that a
transcription is late; a queue of two fills up within one event (a frame and its
mark). Connections: a request that reads before and writes after another one is all a
conflict needs, and a third token lets a refresh follow a second authorization.
Microsoft's constants (`Rotates = TRUE`, `Revokes = FALSE`) were checked as well, with
the same result; the proofs cover both. Sessions and accounts: one held handler is
overtaken by any handler, which is every conflict of two; the proofs allow any
number, overtaken any number of times. Two people are a leader and another; two
companies a present and a former one, and handlers are held only while one of them is
left to be created (`HeldInOneCompany`), so that what needs both companies is checked
for handlers that commit at once. The second invitation is one to the same person and
place (`SecondReplaces`), so that it replaces the first while that is accepted or
revoked; the proofs allow any invitations.
Symmetry is used only over sets whose members no definition distinguishes, and never
with a liveness property. Every run sets `CHECK_DEADLOCK FALSE`: calls end and their
system rests.

Fairness. `CalendarBooking!FairSpec`: weak fairness of each running call, since the
event loop and PostgreSQL go on with whoever can; an await of the provider has a
timeout. `CallQueue!FairSpec`: a stream is bounded in time and runs its `finally`
clause, the clock runs, and each worker loops every five seconds and does what it can
with the call, but only while the call is not crowded out (`Recover`, `Analyze` and
`Claim` are fair under that condition alone); an exception does not hit every attempt to
claim (strong fairness of `Claim`). Nobody must connect, talk, retry or delete, and the
calls before this one need not go away: `EndsAndSettles` promises something only to a
call that is, from some time on, among the candidates a cycle selects (`<>[]~crowded`). `VoiceSession!Fairness`: every request of a cleanup or a
start is answered or fails, and signaling (15 s) and configuration (8 s) have
time-outs; nobody must grant the microphone, press or leave, and the backend owes
nothing. `TwilioMedia!FairSpec`: the setup has time-outs, the event loop runs
the receiver whose frame has arrived, and the drain ends after 0.75 s; nothing is
assumed of the model, of a tool, or of Twilio's socket, so `StopEndsRun` holds with the queue
full and the sender blocked. The other modules have no fairness: nobody must call,
press, authorize or invite, and their properties are about safety.

## What the runs found

* `booking_token`: an access token that cannot be had leaves the row pending, and
  its slot blocked, where the documentation promises `failed`.
* `voice_microphone`: a client secret that has expired when it arrives makes
  `connect()` throw before it has kept the microphone's stream
  (`realtimeClient.ts:204`), and the cleanup stops only what was kept. The microphone
  stays on, where `docs/realtime-voice.md` says that errors use the cleanup that stops
  the tracks. `SessionIsCurrent` names this one exception.
* `voice_double`: while `start()` waits for the report of an attempt that a reload
  left behind, its guards are not set. A second press passes them too and takes over
  the refs when its own report is answered, even from a session that is open by then.
  This is why `voice` lets no one press or leave while a press waits (`Impatient`):
  otherwise `HeldByNewest` fails.
* `accounts_primary`: an invitation keeps its role while its recipient's membership
  changes. Accepted late, it overwrites the role of the primary administrator, where
  `docs/accountsystem-progress.md` promises that services and database protect it.

## What the properties had to allow

A property names the ways around it that the code leaves open; each was found by TLC
as a counterexample of the property without the exception. They are observations on
correctness, and most of them take a rare order of requests.

* *Booking.* `lock_slot` hashes the exact interval, and `load_rules` commits when the
  timezone has changed, which releases the lock (`calendar_configuration.py:50`). With
  several processes only bookings of one interval whose calls kept their lock until they
  inserted are kept apart (`SerializedBookingsDisjoint`, `lost`); bookings that merely
  overlap, and those of a call that lost its lock, are not, although the docstring of
  `lock_slot` speaks of serializing. With the one process the Dockerfile starts no
  bookings overlap (`OneProcessDisjoint`).
* *Call.* A cycle selects the hundred oldest candidates of a tenant
  (`call_processing.py:38`), and a call without confirmed text is put back and stays
  one (`call_analysis.py:199`): a hundred of those keep younger calls from being
  recovered and analysed until retention erases them (`crowded`).
* *Conversation.* `NoDeadEnd` says what a broken-off tool may leave behind:
  `availability_checking`, `final_check_running` and `booking_running` are committed
  before an await, and no tool accepts them afterwards. A bootstrap that ends late
  writes its state over what tools did (`api/v1/calendar.py:705`): hitting a booking
  that runs or is confirmed it opens the conversation to another one (`reopened`), where
  `docs/terminagent-refactoring.md:23` says that every transition is checked against a
  fixed table. Two overlapping `prepare()`
  calls of one browser conversation give two summaries the same version
  (`booking_orchestrator.py:225`); clients ask for one tool at a time, and the
  properties of summaries (`Sequential`) speak of those.
* *Attempts.* `abandon_stale_attempts` selects without a lock, so the finish of an
  attempt old enough to be stale may be overwritten by "abandoned" (`OneOutcome`).
* *Sessions* (`excused`, `doubled`). A login or a choice of a company that runs at the
  same time as a password reset or a deactivation opens a session the other does not
  see. A login that hashes the password anew (`authentication.py:125`) may write the old
  password over one set meanwhile. Two requests for a reset that run at the same time
  leave two tokens. `update_company_user()` with `is_active = false` on a membership that
  had ended before deactivates the user without ending sessions. A manager's reset that
  is overtaken by the user's own change leaves a temporary password that need not be
  changed (`auth.py:609`): no property says otherwise.
* *Accounts* (`Overtaken`, and the disjuncts of `KeepsPrimary`, `KeepsOwner`,
  `JoinsOne`). A transfer of the primary administration and a demotion of its target
  do not see each other. An owner promoted by the command line who accepts an older
  invitation to the platform is an administrator afterwards. A membership that is
  reactivated is not compared with the others, so one may work for two companies.
  `update_managed_user()` has no check for the last administrator, and
  `deactivate-user` leaves a company whose primary administrator is inactive: no
  property says otherwise.
* *Connections* (`Mixed`, `Copying`, `overrun`, `Misses`). A refresh in flight writes
  its tokens back into a row that was disconnected or authorized anew, where
  `docs/calendar-integrations.md:55,68` promises that a disconnection deletes them. Its
  columns may then come from two authorizations. The loser of a race may mark a
  connection as needing a new authorization that has one already. A choice of the
  booking calendar and a synchronisation that have each read the calendars before the
  other committed leave a target that cannot be written to.
* *Bridge.* A clear may drop audio of an item before the last, which is then not marked
  as interrupted: `CutIsMarked` speaks of the last one.

Seen in the code, and covered by no property: an exception before the claim
marks a call failed without counting the attempt (`call_analysis.py:298`); the
inbox status is compared with the one read at the claim (`call_analysis.py:268`);
the client waits without a time-out
for the response that continues a tool call (`toolExecution.ts:109`); two failed logins
at once may count as one (`login_throttle.py:63`).

## Proofs

All proofs hold for any finite or infinite constants that satisfy the assumptions
named in the modules (names are distinct, slots are not empty, bounds are
naturals).

`CalendarBookingProofs`. The invariant `IInv` adds to the types: each place of `pc`
fixes what the row of the call is (`Rows`), a key has one row (`OneRowPerKey`), one
call per process is between two awaits (`Exclusion`), and what the conflict query
saw still holds for the own process when the row is inserted (`CheckedAlone`), and
the holder of a lock has it through its critical section unless it is `lost`, so that
what it checked still holds for other processes too (`SlotLocked`).
From it, for any processes and any changes of the timezone: `TypeCorrect`,
`ConfirmedOnce`, `SlotsSerialized` and `Implements`, the refinement of `BookingLedger`,
where a call that loses its lock lapses (`LapseImplements`) and a row is inserted only
beside rows it is kept apart from (`InsertsApart`). With all calls in one process no
bookings overlap (`OneProcessDisjoint`). That no call loses its lock needs a timezone
that no step changes: a premise about the behaviour (`Steady`), not about the constants,
which `SameSlot` states.

`CallRecordProofs`. `IInv` relates claim, attempts, result and transcript: an
unrevised transcript under a claim, a processed call with a current token, a
completed analysis with its text. From it: `TypeCorrect`, `AnalysisCurrent`,
`ErasedForGood`, `RecordCurrent`, `AttemptsBounded`, `DocumentationFinal`, and as action
properties `FirstEndDecides`, `CompletedForGood`, `FinalTextForGood`.
`RecordImplementsDocument` is the refinement of `CallDocument`: the text is `turns`, an
analysis counts while it is completed. A `finish()` is the document's end (`FinishSeen`;
after the end it can only write the transcript a bridge kept for itself), a saved segment
a write (`SaveSegmentSeen`), a stored answer a publication of the text there is
(`WriteBackSeen`, which needs `ClaimCurrent`), a deletion an erasure; claims, leases,
failures and retries are seen by no reader (`JobUnseen`).

`BookingConversationProofs`. `TypeInv` adds to the types what a session knows while
it waits (`Place`). `AgreedInv` carries the agreed version from `finalize()` to the
row and needs no order of tools: `AgreedBooked`. Neither does `BookedInv`: a key
has one row, which one session at a time may change (`Holders`), and a commit, which
may mix the state of one copy with the booking of another, leaves a row that names a
confirmed booking if it names any (`Copies`, `CommittedSound`): `ConfirmedStands`.
The rest holds while tools run one at a time: then the row is as the running tool read
it, but for the state, which the bootstrap may have written (`Alone`); a commit writes
the whole copy with that exception (`CommittedAlone`), and `Story` says, for each place a
tool waits at, what row it left behind. `Summed`, `BookedRows` and `Accepted` are the
facts about the row itself. From it: `AsTold`, `OnceConfirmed`, `OneSummary`, `NeverStuck`.
`ConversationImplements` uses all of it: while tools run one at a time, an answer of
`prepare()` is an offer above the older ones, a confirming `finalize()` agrees to the
newest one, `create()` holds and settles that one, and `booking_confirmed` announces a
booking that is there; every other step of a tool is seen by no customer
(`SeenAlone`, `SaidStays`). That a held booking is of the newest summary
(`BookingNewest`) is why `Story` carries the version of the key to every place of
`create()`. `Tried` (a booking runs only after an agreement) is what the bootstrap
needs: whatever it writes over, the agreement sees nothing or a reopening (`LoadsSeen`).
Of the requests of `"tabs"` the agreement says nothing, and `VersionNamesSummary` fails
for them.

`VoiceSessionProofs`. `ServerInv` says where a row can be while its bootstrap request
is handled, for requests in any order: `AttemptHasOneOutcome`,
`FinishedGetsNoSecret`. The page has two invariants. `HookInv` holds whatever is pressed
when: no report is of an attempt that has not begun (`UnbegunUnknown`), a running start
holds its turn and is stored (`HeldInTurn`, `Recoverable`), and no report is of a live
session (`LiveUnreported`); `LinkInv` ties a start to its granted secret. From them,
without any premise: `SessionTypes`, `LiveIsConnected`, `RunningIsStored`, and
`PageImplementsServer`: the page uses the backend as `ServerSpec` allows, so
`PageRowsDecide`.

`PageInv` is for a user who presses nothing while a press waits (`~Impatient`). It says
which refs a start owns at each place it can be at (`PlacesHold`, `RefsAgree`), that a
press which waits is alone (`PressedAlone`) and who waits for a report
(`StartReports`, `CleanupReports`); `CloseInv` is the heart of it: whatever step closes,
nothing is left open, but the microphone of a start whose secret had expired (the
finding of `voice_microphone`). From it `CurrentSession`;
`StoredUntilReported` and `NoneForgotten` need besides that the storage names the attempt
whose report a start waits for, or none (`StoredIsReported`). Here the premise is
needed: with `Impatient = TRUE` and three attempts TLC violates `HeldByNewest` and
`KeptUntilReported` (the finding of `voice_double`).

`DecidedForGood` (of `CallRecordProofs`), `ConfirmedAgreed` (of
`BookingConversationProofs`), `CurrentSession`, `NoneForgotten` and `RowsDecide` (of
`VoiceSessionProofs`) join the theorems about the conjuncts of `NothingTakenBack`,
`ConfirmedAndAgreed`, `SessionIsCurrent`, `ReportsKept` and `ServerDecides`.

`TwilioMediaProofs`. `TypeCorrect` needs that a mark stands within the audio of its
item and that no counter passes the number of frames (`PlaybackInv`). `ToolsHearLatest`
rests on `ToolInv`: the latest item is the utterance that began last, the text kept is
its own, and no utterance begins while a tool waits. `CutIsStored` rests on
`SegmentInv`: a segment is stored only once it has text.

`TruncatesHeard` and `CutsMarked` relate a mark in four queues to what was played. The
invariant takes what is on its way to the caller as one sequence (`Way`: Twilio's buffer,
the outbound queue, what the handler has still to send). Its last frames are those of
the playback the bridge has in mind, in their order (`Recent`); the marks before them
are older (`Older`), and so are those that come back for audio that was cleared. What was
heard of an item and what is on its way are together no less than the playback counts
(`Reaches`), and what is acknowledged has left the way (`Past`, `Behind`): so an
acknowledged position has been heard, which is what a truncation claims. A clear on
its way comes after audio of an interrupted item (`Severed`), since the handler sends
nothing in between. All of this is needed only while the caller's leg stands.

`CalendarConnectionsProofs`. `IInv` joins the types, `StaysDisconnected` and what a
waiting request knows (`RequestInv`): what the provider refused it refuses from then on, a
refresh that was answered had a refresh token, a choice is of a calendar that was
writable when it was read. `CommitsRow` says which columns a commit changes.
From it `TypesHold`, `ConsentAskedTruly`, `DisconnectLasts`, `TargetStaysWritable`, for
both kinds of provider.

`SessionsProofs` and `AccountsProofs`. Something of every decision is `Lasting` while it
waits, and a decision of `Accounts` that was not overtaken is still `Right` for the rows
there are. In `Sessions` a decision `Fits` what was committed since its reads: it ends
every live session that had begun before them, if it cuts, and what it opens is on the
password of now, unless that was replaced since. `HeldInv`: every held decision is of
that kind, and no two held handlers have locked the same token or invitation.
`IInv` adds the types, in `Sessions` the two properties themselves and that a token
which has set a password is not open (`UsedTokens`), in `Accounts` that who works has a membership, who
has one has an account, and the unique indexes (`Consistent`). The argument is the same
for every handler: what it decides is of that kind (`Decided`; one lemma per handler),
and its commit keeps the properties (`StoresSessionsEnd`, `StoresTokens`, `StoresGood`).
Why the invariant is needed: without `HeldInv` nothing is known of what a handler is
going to write, and without `Consistent` the added membership of one handler could be
the primary one of another.
From it: `TypesHold`, `SessionsEndWithAccess`, `TokensUsedOnce`;
`TypesHold`, `InvitationsUsedOnce`, `LeadersAreKept`, `OneCompanyEach`.

Only model-checked: `EveryCallEnds`, `EndsAndSettles`, `StartSettles` and `StopEndsRun`,
since the prover does not handle liveness under fairness or ENABLED. Every other
property of a passing run is stated by a theorem. The violations are counterexamples of
TLC. What a recursive definition computes for every input would need induction that
the installed provers cannot instantiate; the models use none, and the theorems about
`TwilioMedia` use of its filters only what their definitions say of one step.

## Not modelled

Parts of the modelled components that are left out: the events of the browser's data
channel (responses, tool calls, playback: their order is the provider's protocol, of
which the repository holds only one side), the rate limit of attempts and the login
throttle (arithmetic on wall-clock times), the inbox status of a call, the signature
checks of webhooks, the columns of the tool audit that nothing reads back, the
wording of confirmations, listings and dashboards, profile and agent settings. A
company with several connections, or accounts of both providers, is several
independent instances of `CalendarConnections` that share the target calendar; the
sharing is left out.

Components that are left out: availability search and its snapshot, beyond the
exact check of `create()` (interval arithmetic on wall-clock times); phone numbers and
routes (an operator provisions one number at a time, and a unique constraint excludes the rest); agent
configuration and prompts, German dates, pages, mail, audit, scripts (text, pure functions or
one-shot I/O); row-level security, which PostgreSQL enforces.

The modules are not composed across components except `VoiceSession` with
`RealtimeAttempt`. `BookingConversation` has the steps of `create()` that its row
shows, `CalendarConnections` one step for a booking, `Sessions` one action per
handler of `Accounts`: each keeps what the properties on its side depend on, and
the product would be out of TLC's reach.
