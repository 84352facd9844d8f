------------------------- MODULE BookingConversation -------------------------
(***************************************************************************)
(* The booking conversation of one call: its row in booking_conversations  *)
(* and the tools that move it (services/conversation_orchestrator.py,      *)
(* conversation_tools.py, booking_orchestrator.py).                        *)
(*                                                                         *)
(* A tool call works on the copy of the row its database session loaded    *)
(* when it began; nothing locks or reloads the row until the call ends,    *)
(* and a commit writes the columns the copy changed.  In a browser every   *)
(* call has a session of its own and may overlap others, and the bootstrap *)
(* of the call runs beside its tools; a telephone call has one session,    *)
(* runs one tool at a time and has no bootstrap.  CalendarBooking models   *)
(* create(); here it is the few steps its rows show.                       *)
(***************************************************************************)
EXTENDS Naturals

CONSTANTS
    Sessions,    \* database sessions in which tools may run at once
    Services,    \* services, each with its appointment type
    Times,       \* starts of bookable intervals
    Customers,   \* what the customer says of themselves
    Window,      \* a date that resolves to a search window
    None,        \* NULL
    MaxVersion   \* bound: confirmation versions

ASSUME NoneAssumption == None \notin Services \cup Times \cup Customers \cup {Window}

ASSUME WindowAssumption == Window \notin Times

ASSUME MaxVersionAssumption == MaxVersion \in Nat

VARIABLES
    channel,  \* call_sessions.channel; "tabs": a browser call whose requests overlap
    ctx,      \* the committed row
    mine,     \* the copy of each session, with its pending changes
    read,     \* that copy as it was loaded or last committed
    tool,     \* the tool each session runs, and what it remembers
    boot,     \* the bootstrap: where it is, and the state in its copy
    rows,     \* calendar_bookings rows made by the conversation
    told,     \* the summaries prepare() answered with, and their versions
    agreed,   \* the versions the customer said yes to
    broken,   \* some tool call failed unexpectedly
    reopened  \* history: the bootstrap wrote over a booking that ran or was confirmed

vars == <<channel, ctx, mine, read, tool, boot, rows, told, agreed, broken, reopened>>

-----------------------------------------------------------------------------
(* The row *)

\* A signed slot, a summary to confirm, and the idempotency key made from it.
Slots == [service : Services, time : Times]
Summaries == [service : Services, time : Times, customer : Customers]
Keys == [version : Nat, summary : Summaries]

\* ALLOWED_TRANSITIONS.
Allowed ==
    [idle                   |-> {"catalog_loading"},
     catalog_loading        |-> {"ready", "service_required"},
     ready                  |-> {"service_required", "service_selected"},
     service_required       |-> {"service_selected"},
     service_selected       |-> {"date_time_required", "date_time_resolving"},
     date_time_required     |-> {"date_time_resolving"},
     date_time_resolving    |-> {"availability_checking", "service_required"},
     availability_checking  |-> {"slot_available", "alternatives_available",
                                 "slot_unavailable"},
     slot_available         |-> {"slot_rechecking", "date_time_resolving",
                                 "service_required"},
     alternatives_available |-> {"slot_rechecking", "date_time_resolving",
                                 "service_required"},
     slot_rechecking        |-> {"customer_data_required", "alternatives_available",
                                 "date_time_resolving", "service_required"},
     slot_unavailable       |-> {"date_time_resolving", "availability_checking",
                                 "service_required"},
     customer_data_required |-> {"awaiting_confirmation", "confirmation_required",
                                 "date_time_resolving", "service_required"},
     awaiting_confirmation  |-> {"final_check_running", "date_time_resolving",
                                 "slot_rechecking", "service_required"},
     confirmation_required  |-> {"final_check_running", "date_time_required"},
     final_check_running    |-> {"booking_running", "alternatives_available",
                                 "slot_unavailable", "booking_failed"},
     booking_running        |-> {"booking_confirmed", "booking_failed",
                                 "alternatives_available", "slot_unavailable"},
     booking_confirmed      |-> {"completed"},
     booking_failed         |-> {"awaiting_confirmation", "date_time_resolving",
                                 "service_required"},
     completed              |-> {"service_required", "service_selected"}]

States == DOMAIN Allowed

\* transition() to another state, or to the same one.
May(from, to) == to = from \/ to \in Allowed[from]

Contexts ==
    [state : States, service : Services \cup {None}, wish : Times \cup {Window, None},
     time : Times \cup {None}, slot : Slots \cup {None}, offered : SUBSET Slots,
     customer : Customers \cup {None}, version : Nat, digest : Summaries \cup {None},
     booking : Keys \cup {None}]

Blank ==
    [state |-> "idle", service |-> None, wish |-> None, time |-> None, slot |-> None,
     offered |-> {}, customer |-> None, version |-> 0, digest |-> None, booking |-> None]

SlotsOf(service) == {x \in Slots : x.service = service}

\* Mutants: a failed booking cannot be left; a confirmed one can.
ReopenedNotFailed == {"date_time_resolving", "slot_available", "alternatives_available",
    "slot_rechecking", "customer_data_required", "awaiting_confirmation"}
ReopenedConfirmed == ReopenedNotFailed \cup {"booking_failed", "booking_confirmed"}

\* select_service() goes back to service_required from these.
Reopened == {"date_time_resolving", "slot_available", "alternatives_available",
    "slot_rechecking", "customer_data_required", "awaiting_confirmation", "booking_failed"}

ServiceSelectable(state) ==
    state \in Reopened \cup
        {"idle", "catalog_loading", "ready", "service_required", "service_selected", "completed"}

\* Mutant: the slot keeps the date that was wanted.
ServiceSelectedWish(c, service) ==
    [c EXCEPT !.state = "date_time_resolving", !.service = service, !.wish = None,
              !.time = c.wish, !.slot = None, !.offered = {}, !.digest = None]

\* select_service(): everything chosen for the old service is forgotten.
ServiceSelected(c, service) ==
    [c EXCEPT !.state = "date_time_resolving", !.service = service, !.wish = None,
              !.time = None, !.slot = None, !.offered = {}, !.digest = None]

\* resolve_booking_datetime reopens the choice of a time from these.
DateOpen == {"date_time_required", "date_time_resolving", "slot_available",
    "alternatives_available", "slot_rechecking", "customer_data_required",
    "awaiting_confirmation"}

\* The summary of a copy, as finalize() books it.
Material(c) == [service |-> c.service, time |-> c.slot.time, customer |-> c.customer]

-----------------------------------------------------------------------------
(* Tools and their sessions *)

Tools == {"resolve_service", "resolve_booking_datetime", "check_availability",
          "find_alternatives", "select_booking_slot", "prepare", "finalize"}

\* What a running tool waits for.
Awaits == {"checking", "finding", "preparing", "prepared", "final_check", "booking",
           "held", "settled"}

Works == [at : Tools \cup Awaits \cup {"idle"}, key : Keys \cup {None},
          summary : Summaries \cup {None}]

Idle == [at |-> "idle", key |-> None, summary |-> None]

NoBoot == [at |-> "idle", state |-> "idle"]

Resting == \A s \in Sessions : tool[s].at = "idle"

TypeOK ==
    /\ channel \in {"browser", "tabs", "telephone"}
    /\ ctx \in Contexts
    /\ mine \in [Sessions -> Contexts]
    /\ read \in [Sessions -> Contexts]
    /\ tool \in [Sessions -> Works]
    /\ boot \in [at : {"idle", "started", "loading"}, state : States]
    /\ rows \subseteq [key : Keys, made : Summaries,
                       status : {"pending", "confirmed", "failed"}]
    /\ told \subseteq Keys
    /\ agreed \subseteq Nat
    /\ broken \in BOOLEAN
    /\ reopened \in BOOLEAN

Init ==
    /\ channel \in {"browser", "tabs", "telephone"}
    /\ ctx = Blank
    /\ mine = [s \in Sessions |-> Blank]
    /\ read = [s \in Sessions |-> Blank]
    /\ tool = [s \in Sessions |-> Idle]
    /\ boot = NoBoot
    /\ rows = {}
    /\ told = {}
    /\ agreed = {}
    /\ broken = FALSE
    /\ reopened = FALSE

\* A commit of copy c writes the columns that differ from what was read, and
\* those that hold a fresh signature.
Committed(s, c, signed) ==
    [f \in DOMAIN ctx |-> IF f \in signed \/ c[f] # read[s][f] THEN c[f] ELSE ctx[f]]

Goes(s, place) == tool' = [tool EXCEPT ![s].at = place]

\* The session changes its copy and commits nothing yet.
Keeps(s, c) ==
    /\ mine' = [mine EXCEPT ![s] = c]
    /\ UNCHANGED <<ctx, read>>

\* The session commits its copy and goes on.
Commits(s, c, signed) ==
    /\ ctx' = Committed(s, c, signed)
    /\ mine' = [mine EXCEPT ![s] = c]
    /\ read' = [read EXCEPT ![s] = c]

\* The tool call is over, and the row is as given.
Leaves(s, row) ==
    /\ ctx' = row
    /\ tool' = [tool EXCEPT ![s] = Idle]
    /\ mine' = [mine EXCEPT ![s] = Blank]
    /\ read' = [read EXCEPT ![s] = Blank]

\* The tool commits and ends.
Done(s, c, signed) == Leaves(s, Committed(s, c, signed))

\* The tool refuses; audit.complete() reloads the copy, or the session closes.
Fails(s) == Leaves(s, ctx)

\* A CalendarError passes audit.complete(): a telephone call keeps the session,
\* whose next commit writes what was pending.
Escapes(s) == Leaves(s, IF channel = "telephone" THEN Committed(s, mine[s], {}) ELSE ctx)

At(s, place) == tool[s].at = place

\* What no tool touches.
untouched == <<channel, boot, reopened>>

unbooked == <<rows, told, agreed, broken, untouched>>

-----------------------------------------------------------------------------
(* The tools before the summary *)

\* A tool call begins: its session loads the row.  A tool_call_id seen before is
\* refused without effect.  Clients set parallel_tool_calls to false, which the
\* backend does not enforce.
Start(s, t) ==
    /\ At(s, "idle")
    /\ channel # "tabs" => Resting
    /\ Goes(s, t)
    /\ mine' = [mine EXCEPT ![s] = ctx]
    /\ read' = [read EXCEPT ![s] = ctx]
    /\ UNCHANGED <<ctx, unbooked>>

ResolveService(s) ==
    /\ At(s, "resolve_service")
    /\ \/ Fails(s)   \* not unique, or the state does not allow it
       \/ /\ ServiceSelectable(mine[s].state)
          /\ \E service \in Services : Done(s, ServiceSelected(mine[s], service), {})
    /\ UNCHANGED unbooked

ResolveDatetime(s) ==
    /\ At(s, "resolve_booking_datetime")
    /\ \/ mine[s].state \notin DateOpen /\ Fails(s)
       \/ /\ mine[s].state \in DateOpen
          /\ \E wish \in Times \cup {Window, None} :
                Done(s, [mine[s] EXCEPT !.state = "date_time_resolving", !.wish = wish,
                         !.time = None, !.slot = None, !.offered = {}, !.digest = None], {})
    /\ UNCHANGED unbooked

CheckAvailability(s) ==
    /\ At(s, "check_availability")
    /\ \/ Fails(s)   \* no concrete date, or not this service's appointment type
       \/ /\ mine[s].state = "date_time_resolving"
          /\ mine[s].service # None /\ mine[s].wish \in Times
          /\ Keeps(s, [mine[s] EXCEPT !.state = "availability_checking"])
          /\ Goes(s, "checking")
    /\ UNCHANGED unbooked

\* What is wanted is free, or others are offered.
CheckEnds(s) ==
    /\ At(s, "checking")
    /\ LET exact == [service |-> mine[s].service, time |-> mine[s].wish] IN
       \/ Done(s, [mine[s] EXCEPT !.state = "slot_available", !.time = exact.time,
                   !.slot = exact, !.offered = {exact}], {"slot", "offered"})
       \/ \E offered \in SUBSET (SlotsOf(mine[s].service) \ {exact}) :
            Done(s, [mine[s] EXCEPT !.state = "alternatives_available", !.time = None,
                     !.slot = None, !.offered = offered], {"offered"})
    /\ UNCHANGED unbooked

\* The provider fails; nothing catches it in the tool.
CheckFails(s) ==
    /\ At(s, "checking")
    /\ Escapes(s)
    /\ broken' = TRUE
    /\ UNCHANGED <<rows, told, agreed, untouched>>

FindAlternatives(s) ==
    /\ At(s, "find_alternatives")
    /\ \/ Fails(s)
       \/ /\ mine[s].state \in {"date_time_resolving", "alternatives_available"}
          /\ mine[s].service # None /\ mine[s].wish # None
          /\ Goes(s, "finding")
          /\ UNCHANGED <<ctx, mine, read>>
    /\ UNCHANGED unbooked

FindEnds(s) ==
    /\ At(s, "finding")
    /\ \/ Fails(s)
       \/ \E offered \in SUBSET SlotsOf(mine[s].service) :
            Done(s, [mine[s] EXCEPT !.state = "alternatives_available",
                     !.offered = offered], {"offered"})
    /\ UNCHANGED unbooked

SelectBookingSlot(s) ==
    /\ At(s, "select_booking_slot")
    /\ \/ Fails(s)   \* not offered, expired, or of another service
       \/ /\ mine[s].state = "alternatives_available"
          /\ \E slot \in mine[s].offered :
                /\ slot.service = mine[s].service
                /\ Done(s, [mine[s] EXCEPT !.state = "slot_rechecking", !.slot = slot,
                         !.time = slot.time, !.digest = None], {})
    /\ UNCHANGED unbooked

\* A snapshot, a refreshed token, a recorded connection error or, on the
\* telephone, a saved segment commits what the session holds during an await.
Flushes(s) ==
    /\ tool[s].at \in {"checking", "preparing"}
    /\ Commits(s, mine[s], {})
    /\ Goes(s, IF At(s, "preparing") THEN "prepared" ELSE "checking")
    /\ UNCHANGED unbooked

-----------------------------------------------------------------------------
(* prepare() *)

\* The summary is taken from the copy before the slot is checked again.
Prepare(s) ==
    /\ At(s, "prepare")
    /\ \/ Fails(s) /\ UNCHANGED told
       \/ \E customer \in Customers :
            LET c == mine[s]
                summary == [service |-> c.service, time |-> c.time, customer |-> customer]
                again == c.state = "awaiting_confirmation" /\ c.digest = summary IN
            /\ c.service # None /\ c.time # None
            /\ \/ /\ again
                  /\ told' = told \cup {[version |-> c.version, summary |-> summary]}
                  /\ Leaves(s, ctx)
               \/ /\ ~again
                  /\ c.state \in {"awaiting_confirmation", "slot_available", "slot_rechecking"}
                  /\ c.version < MaxVersion
                  /\ Keeps(s, [c EXCEPT !.state = "slot_rechecking", !.digest =
                            IF c.state = "awaiting_confirmation" THEN None ELSE c.digest])
                  /\ tool' = [tool EXCEPT ![s].at = "preparing", ![s].summary = summary]
                  /\ UNCHANGED told
    /\ UNCHANGED <<rows, agreed, broken, untouched>>

\* Mutants: the version stays, or the customer is not stored.
PreparedSameVersion(c, summary) ==
    [c EXCEPT !.state = "awaiting_confirmation", !.customer = summary.customer,
              !.slot = [service |-> c.service, time |-> c.time], !.digest = summary]
PreparedOldCustomer(c, summary) ==
    [c EXCEPT !.state = "awaiting_confirmation",
              !.customer = IF c.customer = None THEN summary.customer ELSE c.customer,
              !.slot = [service |-> c.service, time |-> c.time],
              !.version = c.version + 1, !.digest = summary]

\* The copy when the slot is still free.
Prepared(c, summary) ==
    [c EXCEPT !.state = "awaiting_confirmation", !.customer = summary.customer,
              !.slot = [service |-> c.service, time |-> c.time],
              !.version = c.version + 1, !.digest = summary]

\* The recheck of prepare() ends after the commit of its snapshot.
PrepareEnds(s) ==
    /\ At(s, "prepared")
    /\ \/ LET c == Prepared(mine[s], tool[s].summary) IN
          /\ Done(s, c, {"slot"})
          /\ told' = told \cup {[version |-> c.version, summary |-> c.digest]}
       \/ /\ Done(s, [mine[s] EXCEPT !.state = "alternatives_available", !.slot = None,
                    !.time = None, !.digest = None], {})
          /\ UNCHANGED told
    /\ UNCHANGED <<rows, agreed, broken, untouched>>

PrepareFails(s) ==
    /\ tool[s].at \in {"preparing", "prepared"}
    /\ Fails(s)
    /\ UNCHANGED unbooked

-----------------------------------------------------------------------------
(* finalize() *)

\* Mutant: any version may be confirmed.
AnyVersion(c, version) == TRUE

CurrentVersion(c, version) == version = c.version

\* The tool names a version it was told, and passes on the customer's answer.
Finalize(s) ==
    /\ At(s, "finalize")
    /\ \/ \* booked already, no summary, stale version, unclear answer
          Fails(s) /\ UNCHANGED agreed
       \/ \E version \in {k.version : k \in told} :
            /\ mine[s].state = "awaiting_confirmation"
            /\ CurrentVersion(mine[s], version)
            /\ mine[s].digest # None
            /\ \/ \* declined, or a change is wanted
                  /\ Done(s, [mine[s] EXCEPT !.state = "date_time_resolving"], {})
                  /\ UNCHANGED agreed
               \/ /\ mine[s].service # None /\ mine[s].slot # None
                  /\ mine[s].time # None /\ mine[s].customer # None
                  /\ Commits(s, [mine[s] EXCEPT !.state = "final_check_running"], {})
                  /\ Goes(s, "final_check")
                  /\ agreed' = agreed \cup {version}
    /\ UNCHANGED <<rows, told, broken, untouched>>

Row(k, status) == \E r \in rows : r.key = k /\ r.status = status

Booked(s, k) == [mine[s] EXCEPT !.state = "booking_confirmed", !.booking = k]

\* The slot is checked a last time.
FinalCheck(s) ==
    /\ At(s, "final_check")
    /\ LET k == [version |-> mine[s].version, summary |-> mine[s].digest]
           c == [mine[s] EXCEPT !.slot = [service |-> mine[s].service, time |-> mine[s].time]] IN
       \/ Done(s, [mine[s] EXCEPT !.state = "alternatives_available"], {})
       \/ /\ Row(k, "confirmed")
          /\ Done(s, [c EXCEPT !.state = "booking_confirmed", !.booking = k], {"slot"})
       \/ /\ ~Row(k, "confirmed")
          /\ Commits(s, [c EXCEPT !.state = "booking_running"], {"slot"})
          /\ tool' = [tool EXCEPT ![s].at = "booking", ![s].key = k]
    /\ UNCHANGED unbooked

\* The last check fails after final_check_running was committed.
FinalCheckFails(s) ==
    /\ At(s, "final_check")
    /\ Fails(s)
    /\ broken' = TRUE
    /\ UNCHANGED <<rows, told, agreed, untouched>>

\* create() makes no row: it refuses, or a row for the key exists, or the slot is
\* taken; the rollback of a conflict reloads the copy.
CreateRefuses(s) ==
    /\ At(s, "booking")
    /\ \/ \E state \in {"alternatives_available", "booking_failed"} :
            Done(s, [mine[s] EXCEPT !.state = state], {})
       \/ /\ May(ctx.state, "alternatives_available")
          /\ Leaves(s, [ctx EXCEPT !.state = "alternatives_available"])
       \/ ~May(ctx.state, "alternatives_available") /\ Fails(s)
    /\ UNCHANGED unbooked

\* create() returns the booking another call with the key has confirmed.
CreateFinds(s) ==
    /\ At(s, "booking")
    /\ Row(tool[s].key, "confirmed")
    /\ Done(s, Booked(s, tool[s].key), {})
    /\ UNCHANGED unbooked

\* create() commits the pending row.
CreateHolds(s) ==
    /\ At(s, "booking")
    /\ \A r \in rows : r.key # tool[s].key
    /\ mine[s].slot.service = mine[s].service
    /\ rows' = rows \cup
            {[key |-> tool[s].key, made |-> Material(mine[s]), status |-> "pending"]}
    /\ Goes(s, "held")
    /\ UNCHANGED <<ctx, mine, read, told, agreed, broken, untouched>>

RowBecomes(k, status) ==
    rows' = {[r EXCEPT !.status = IF r.key = k THEN status ELSE r.status] : r \in rows}

\* The provider confirms, and create() commits the row.
CreateConfirms(s) ==
    /\ At(s, "held")
    /\ RowBecomes(tool[s].key, "confirmed")
    /\ Goes(s, "settled")
    /\ UNCHANGED <<ctx, mine, read, told, agreed, broken, untouched>>

\* The provider refuses, or the row stays pending without a token or a commit.
CreateFails(s) ==
    /\ At(s, "held")
    /\ RowBecomes(tool[s].key, "failed") \/ UNCHANGED rows
    /\ Done(s, [mine[s] EXCEPT !.state = "booking_failed"], {})
    /\ UNCHANGED <<told, agreed, broken, untouched>>

\* The conversation learns of its booking.
FinalizeEnds(s) ==
    /\ At(s, "settled")
    /\ Done(s, Booked(s, tool[s].key), {})
    /\ UNCHANGED unbooked

-----------------------------------------------------------------------------
(* The bootstrap, and the end of a call *)

\* The state the bootstrap commits, over whatever a tool has committed since.
Overwrites(state) ==
    /\ ctx' = [ctx EXCEPT !.state = state]
    /\ reopened' = (reopened \/ ctx.state \in {"booking_running", "booking_confirmed"})

\* The client of a browser call asks for the bootstrap, and does not wait for it.
BootstrapStarts ==
    /\ channel # "telephone"
    /\ boot.at = "idle"
    /\ boot' = [at |-> "started", state |-> ctx.state]
    /\ UNCHANGED <<channel, ctx, mine, read, tool, rows, told, agreed, broken, reopened>>

\* bootstrap_started(): a row that was idle when it was read becomes catalog_loading.
Bootstrap ==
    /\ boot.at = "started"
    /\ \/ /\ boot.state = "idle"
          /\ Overwrites("catalog_loading")
          /\ boot' = [at |-> "loading", state |-> "catalog_loading"]
       \/ /\ boot.state # "idle"
          /\ boot' = [boot EXCEPT !.at = "loading"]
          /\ UNCHANGED <<ctx, reopened>>
    /\ UNCHANGED <<channel, mine, read, tool, rows, told, agreed, broken>>

\* bootstrap_completed(): the transition is checked against the state of the copy.
BootstrapEnds ==
    /\ boot.at = "loading"
    /\ \E state \in {"ready", "service_required"} :
        /\ May(boot.state, state)
        /\ \/ state # boot.state /\ Overwrites(state)
           \/ state = boot.state /\ UNCHANGED <<ctx, reopened>>
    /\ boot' = NoBoot
    /\ UNCHANGED <<channel, mine, read, tool, rows, told, agreed, broken>>

\* The transition is refused, or the request breaks off.
BootstrapFails ==
    /\ boot.at # "idle"
    /\ boot' = NoBoot
    /\ UNCHANGED <<channel, ctx, mine, read, tool, rows, told, agreed, broken, reopened>>

\* The process dies, the caller hangs up, or an exception nobody expected rolls
\* the session back.
Breaks(s) ==
    /\ ~At(s, "idle")
    /\ Fails(s)
    /\ broken' = TRUE
    /\ UNCHANGED <<rows, told, agreed, untouched>>

Loads == BootstrapStarts \/ Bootstrap \/ BootstrapEnds \/ BootstrapFails

Next ==
    \/ Loads
    \/ \E s \in Sessions :
        \/ \E t \in Tools : Start(s, t)
        \/ ResolveService(s) \/ ResolveDatetime(s)
        \/ CheckAvailability(s) \/ CheckEnds(s) \/ CheckFails(s)
        \/ FindAlternatives(s) \/ FindEnds(s) \/ SelectBookingSlot(s)
        \/ Flushes(s)
        \/ Prepare(s) \/ PrepareEnds(s) \/ PrepareFails(s)
        \/ Finalize(s) \/ FinalCheck(s) \/ FinalCheckFails(s)
        \/ CreateRefuses(s) \/ CreateFinds(s) \/ CreateHolds(s)
        \/ CreateConfirms(s) \/ CreateFails(s) \/ FinalizeEnds(s)
        \/ Breaks(s)

Spec == Init /\ [][Next]_vars

-----------------------------------------------------------------------------
(* What the conversation promises *)

\* Whether tools run one at a time, as the clients ask for them, beside the bootstrap
\* of a browser call.
Sequential == channel # "tabs"

\* docs/terminagent-refactoring.md: the idempotency key is made from service,
\* type, start, customer and version.  A booking is of exactly the summary the
\* customer was told under its version, whatever was chosen in between.
BookedAsTold ==
    Sequential => \A r \in rows : r.key \in told /\ r.made = r.key.summary

\* However often finalize() is repeated, refused, broken off or started over, a
\* call makes at most one confirmed booking: unless the bootstrap ended late and
\* wrote its state over a booking that ran or was confirmed, which opens the
\* conversation to another one.
OneBookingPerCall ==
    (Sequential /\ ~reopened) =>
        \A q, r \in rows : q.status = "confirmed" /\ r.status = "confirmed" => q = r

\* docs/terminagent-refactoring.md: success may be spoken only of a confirmed row.
\* However answers overlap, booking_confirmed names one: also a second finalize()
\* that finds the key taken while the first still waits for the provider.
BookedMeansConfirmed ==
    ctx.state = "booking_confirmed" => Row(ctx.booking, "confirmed")

\* A booking has the version the customer said yes to: a late "yes" to an older
\* summary never books a newer one.
OnlyAgreedBooked == \A r \in rows : r.key.version \in agreed

\* However answers overlap, booking_confirmed stands for a confirmed row, and a row
\* for a version that was agreed to.
ConfirmedAndAgreed == BookedMeansConfirmed /\ OnlyAgreedBooked

\* No sequence of tools ends in a state that every tool refuses: a conversation
\* without its booking can start over.  Only a call that breaks off during an await
\* may leave one of the three states that are committed before it.
NoDeadEnd ==
    (Sequential /\ Resting) =>
        \/ ServiceSelectable(ctx.state)
        \/ ctx.state = "booking_confirmed"
        \/ /\ broken
           /\ ctx.state \in {"availability_checking", "final_check_running", "booking_running"}

\* tests/test_calendar_integration.py: a changed summary gets a version of its
\* own, so that a version names one summary.
VersionNamesSummary ==
    \A k, l \in told : k.version = l.version => k = l

\* While tools run one at a time it does, also when prepare() is broken off, asked
\* again, or follows a change of service: a "yes" can mean only one summary.
YesMeansOneSummary == Sequential => VersionNamesSummary

\* A conversation in which tools run one at a time beside the bootstrap, as its
\* customer sees it: what was told, agreed to, booked and announced.  Of tools that
\* overlap it says nothing.
Seen(value, nothing) == IF Sequential THEN value ELSE nothing

\* A row is a booking of what was made, under the version of its key.
Booking(r) ==
    [offer |-> [version |-> r.key.version, summary |-> r.made], status |-> r.status]

Agreement == INSTANCE BookingAgreement WITH
    Offers <- [version : 1..MaxVersion, summary : Summaries],
    offers <- Seen(told, {}),
    agreed <- Seen(agreed, {}),
    bookings <- Seen({Booking(r) : r \in rows}, {}),
    announced <- Seen(ctx.state = "booking_confirmed", FALSE),
    reopened <- Seen(reopened, FALSE)

\* The conversation implements the agreement: no order, repetition or breaking off
\* of tools books what was not the newest summary when the customer said yes to it,
\* and only a bootstrap that ends late makes it go on after a confirmed booking or
\* takes the announcement back.
ImplementsAgreement == Agreement!Spec
=============================================================================
