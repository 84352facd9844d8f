--------------------------- MODULE CalendarBooking ---------------------------
(***************************************************************************)
(* CalendarBookingService.create (services/calendar_booking.py): the       *)
(* concurrent booking calls of one tenant, each with its own database      *)
(* session, against PostgreSQL (READ COMMITTED, transaction-scoped         *)
(* advisory locks) and the calendar provider.                              *)
(*                                                                         *)
(* A call runs as a coroutine of the event loop of one backend process.    *)
(* Between two awaits it issues blocking database statements, so no other  *)
(* call of the same process runs there; calls of other processes do.  One  *)
(* action is one database statement whose result the later code depends    *)
(* on, or one await.                                                       *)
(***************************************************************************)
EXTENDS Integers, FiniteSets

CONSTANTS
    Requests,   \* the calls of create(), one database session each
    Processes,  \* backend processes, each with one event loop
    Home,       \* the process a call runs in
    Keys,       \* idempotency keys
    Slots,      \* signed slots: the visible interval and the buffers of its type
    Zones,      \* timezones the tenant is configured with over time
    NoRequest   \* "the lock is free"

ASSUME HomeAssumption == Home \in [Requests -> Processes]

ASSUME SlotsAssumption ==
    /\ Slots \subseteq [start : Int, end : Int, before : Nat, after : Nat]
    /\ \A s \in Slots : s.start < s.end

ASSUME NoRequestAssumption == NoRequest \notin Requests

VARIABLES
    pc,          \* where each call stands
    key,         \* payload.idempotency_key of each call
    slot,        \* the interval of payload.slot_id
    zone,        \* tenant_timezone the call was created with
    row,         \* the calendar_bookings row the call inserted
    lost,        \* history: calls whose lock load_rules freed before they inserted
    lock,        \* advisory lock per lock key: its holder
    events,      \* calls whose event exists in the provider's calendar
    reply,       \* what create() returned or raised
    tenantZone,  \* tenants.timezone
    configZone   \* booking_configurations.timezone

requestVars == <<key, slot, zone, lost>>
zoneVars == <<tenantZone, configZone>>
vars == <<pc, key, slot, zone, row, lost, lock, events, reply, tenantZone, configZone>>

-----------------------------------------------------------------------------
(* Slots and locks *)

\* lock_slot hashes the exact start and end of the slot.
LockKey(s) == <<s.start, s.end>>

LockKeys == {LockKey(s) : s \in Slots}

\* The two blocked intervals (visible interval plus buffers) intersect.
Overlaps(s, t) ==
    /\ s.start - s.before < t.end + t.after
    /\ t.start - t.before < s.end + s.after

\* status / sync_status of a row.  "diverged" is pending / needs_reconciliation.
RowStates == {"none", "pending", "confirmed", "failed", "diverged"}
\* The rows that block an interval: status pending or confirmed.
Blocking == {"pending", "confirmed", "diverged"}

Locations == {"idle", "checking", "resumed", "searching", "lock_wait", "locked",
              "rechecked", "checked", "inserted", "creating", "accepted", "done"}

\* From the local availability check to the commit no await yields the loop.
Synchronous == {"lock_wait", "locked", "rechecked", "checked"}

Replies == {"none", "confirmed", "duplicate_booking", "slot_no_longer_available",
            "rejected", "token_error", "calendar_event_creation_failed",
            "local_confirmation_failed", "exception", "crashed"}

\* The event loop of the call's process is free to run it.
LoopFree(r) ==
    \A q \in Requests \ {r} : Home[q] = Home[r] => pc[q] \notin Synchronous

\* Ending a transaction (commit, rollback, closed session) frees its locks.
LocksWithout(r) == [w \in LockKeys |-> IF lock[w] = r THEN NoRequest ELSE lock[w]]

RowsForKey(k) == {q \in Requests : row[q] # "none" /\ key[q] = k}

BlockingRows == {q \in Requests : row[q] \in Blocking}

LocalConflict(s) == \E q \in BlockingRows : Overlaps(slot[q], s)

-----------------------------------------------------------------------------
TypeOK ==
    /\ pc \in [Requests -> Locations]
    /\ key \in [Requests -> Keys]
    /\ slot \in [Requests -> Slots]
    /\ zone \in [Requests -> Zones]
    /\ row \in [Requests -> RowStates]
    /\ lost \subseteq Requests
    /\ lock \in [LockKeys -> Requests \cup {NoRequest}]
    /\ events \subseteq Requests
    /\ reply \in [Requests -> Replies]
    /\ tenantZone \in Zones
    /\ configZone \in Zones

\* The key and the slot of every call to come are chosen here, once; its zone is
\* captured by Begin.
Init ==
    /\ pc = [r \in Requests |-> "idle"]
    /\ key \in [Requests -> Keys]
    /\ slot \in [Requests -> Slots]
    /\ row = [r \in Requests |-> "none"]
    /\ lost = {}
    /\ lock = [w \in LockKeys |-> NoRequest]
    /\ events = {}
    /\ reply = [r \in Requests |-> "none"]
    /\ tenantZone \in Zones
    /\ zone = [r \in Requests |-> tenantZone]
    /\ configZone = tenantZone

-----------------------------------------------------------------------------
(* create(), step by step *)

Goto(r, l) == pc' = [pc EXCEPT ![r] = l]

\* The call leaves create() with answer a; its session ends.
Answer(r, a) ==
    /\ Goto(r, "done")
    /\ reply' = [reply EXCEPT ![r] = a]
    /\ lock' = LocksWithout(r)

\* Mutant: any earlier attempt with the key counts as its booking.
ExistingReplyAnyRow(k) == "confirmed"

\* The answer of the three places that find a row with the call's key.
ExistingReply(k) ==
    IF \E q \in RowsForKey(k) : row[q] = "confirmed"
    THEN "confirmed" ELSE "duplicate_booking"

\* The call starts: load_rules of the availability check writes the timezone
\* the call was created with into the booking configuration.
Begin(r) ==
    /\ pc[r] = "idle"
    /\ LoopFree(r)
    /\ zone' = [zone EXCEPT ![r] = tenantZone]
    /\ \/ /\ RowsForKey(key[r]) # {}
          /\ Answer(r, ExistingReply(key[r]))
          /\ UNCHANGED configZone
       \/ \* conversation without booking actions, slot unverifiable or expired,
          \* type inactive: raised before or after load_rules wrote
          /\ Answer(r, "rejected")
          /\ configZone' \in {configZone, tenantZone}
       \/ /\ RowsForKey(key[r]) = {}
          /\ Goto(r, "checking")
          /\ configZone' = tenantZone
          /\ UNCHANGED <<lock, reply>>
    /\ UNCHANGED <<key, slot, lost, row, events, tenantZone>>

\* The provider's busy query of exact_slot_available returns or fails.
ExternalAnswers(r) ==
    /\ pc[r] = "checking"
    /\ \/ /\ Goto(r, "resumed")
          /\ UNCHANGED <<lock, reply>>
       \/ /\ LoopFree(r)
          /\ Answer(r, "rejected")
    /\ UNCHANGED <<requestVars, row, events, zoneVars>>

\* The coroutine resumes and reads the local bookings.  Busy external
\* calendars, business hours and the notice may refuse the slot as well.
ReadLocal(r) ==
    /\ pc[r] = "resumed"
    /\ LoopFree(r)
    /\ \/ /\ ~LocalConflict(slot[r])
          /\ Goto(r, "lock_wait")
          /\ UNCHANGED configZone
       \/ /\ Goto(r, "searching")
          /\ configZone' = zone[r]
    /\ UNCHANGED <<requestVars, row, lock, events, reply, tenantZone>>

\* The search for alternatives, an await of its own, ends.
SearchEnds(r) ==
    /\ pc[r] = "searching"
    /\ LoopFree(r)
    /\ \E a \in {"slot_no_longer_available", "rejected"} : Answer(r, a)
    /\ UNCHANGED <<requestVars, row, events, zoneVars>>

\* Mutant: a build without the advisory lock.
LockSlotSkipped(r) ==
    /\ pc[r] = "lock_wait"
    /\ Goto(r, "locked")
    /\ UNCHANGED <<requestVars, row, lock, events, reply, zoneVars>>

\* pg_advisory_xact_lock blocks, and with it the whole event loop.
LockSlot(r) ==
    /\ pc[r] = "lock_wait"
    /\ lock[LockKey(slot[r])] = NoRequest
    /\ lock' = [lock EXCEPT ![LockKey(slot[r])] = r]
    /\ Goto(r, "locked")
    /\ UNCHANGED <<requestVars, row, events, reply, zoneVars>>

\* Under the lock: the key again, then load_rules, whose commit of a changed
\* timezone ends the transaction and with it the lock.
Recheck(r) ==
    /\ pc[r] = "locked"
    /\ \/ /\ RowsForKey(key[r]) # {}
          /\ Answer(r, ExistingReply(key[r]))
          /\ UNCHANGED <<configZone, lost>>
       \/ /\ RowsForKey(key[r]) = {}
          /\ configZone = zone[r]
          /\ Goto(r, "rechecked")
          /\ UNCHANGED <<configZone, lost, lock, reply>>
       \/ /\ RowsForKey(key[r]) = {}
          /\ configZone # zone[r]
          /\ Goto(r, "rechecked")
          /\ configZone' = zone[r]
          /\ lock' = LocksWithout(r)
          /\ lost' = lost \cup {r}
          /\ UNCHANGED reply
       \/ \* type or service inactive, service does not match
          /\ RowsForKey(key[r]) = {}
          /\ Answer(r, "rejected")
          /\ configZone' = zone[r]
          /\ UNCHANGED lost
    /\ UNCHANGED <<key, slot, zone, row, events, tenantZone>>

\* Mutant: the conflict branch searches for alternatives without a rollback.
ConflictCheckNoRollback(r) ==
    /\ pc[r] = "rechecked"
    /\ \/ LocalConflict(slot[r]) /\ Goto(r, "searching")
       \/ ~LocalConflict(slot[r]) /\ Goto(r, "checked")
    /\ UNCHANGED <<requestVars, row, lock, events, reply, zoneVars>>

\* The local conflict query.  On a conflict the rollback frees the lock before
\* the search awaits the provider.
ConflictCheck(r) ==
    /\ pc[r] = "rechecked"
    /\ \/ /\ LocalConflict(slot[r])
          /\ Goto(r, "searching")
          /\ lock' = LocksWithout(r)
          /\ configZone' = zone[r]
          /\ UNCHANGED reply
       \/ /\ ~LocalConflict(slot[r])
          /\ Goto(r, "checked")
          /\ UNCHANGED <<lock, reply, configZone>>
       \/ \* no target calendar, not writable, connection not connected
          /\ ~LocalConflict(slot[r])
          /\ Answer(r, "rejected")
          /\ UNCHANGED configZone
    /\ UNCHANGED <<requestVars, row, events, tenantZone>>

\* Mutant: a table without the unique constraint.
InsertRowAlways(r) ==
    /\ pc[r] = "checked"
    /\ row' = [row EXCEPT ![r] = "pending"]
    /\ Goto(r, "inserted")
    /\ lock' = LocksWithout(r)
    /\ UNCHANGED <<requestVars, events, reply, zoneVars>>

\* INSERT and commit.  The unique constraint on (tenant_id, idempotency_key)
\* turns the insertion of a second row for a key into a lookup.
InsertRow(r) ==
    /\ pc[r] = "checked"
    /\ \/ /\ RowsForKey(key[r]) = {}
          /\ row' = [row EXCEPT ![r] = "pending"]
          /\ Goto(r, "inserted")
          /\ lock' = LocksWithout(r)
          /\ UNCHANGED reply
       \/ /\ RowsForKey(key[r]) # {}
          /\ Answer(r, ExistingReply(key[r]))
          /\ UNCHANGED row
    /\ UNCHANGED <<requestVars, events, zoneVars>>

\* valid_access_token: outside the try block that marks a row failed.
GetToken(r) ==
    /\ pc[r] = "inserted"
    /\ LoopFree(r)
    /\ \/ /\ Goto(r, "creating")
          /\ UNCHANGED <<lock, reply>>
       \/ Answer(r, "token_error")
    /\ UNCHANGED <<requestVars, row, events, zoneVars>>

\* The provider creates the event, or answers 409 because an event with the id
\* derived from the key exists, which create_event takes for a success.
ProviderAccepts(r) ==
    /\ pc[r] = "creating"
    /\ events' = IF \E q \in events : key[q] = key[r] THEN events
                 ELSE events \cup {r}
    /\ Goto(r, "accepted")
    /\ UNCHANGED <<requestVars, row, lock, reply, zoneVars>>

\* CalendarProviderError: refused, timed out or answer lost.  The event may
\* exist all the same.
ProviderFails(r) ==
    /\ pc[r] \in {"creating", "accepted"}
    /\ LoopFree(r)
    /\ row' = [row EXCEPT ![r] = "failed"]
    /\ Answer(r, "calendar_event_creation_failed")
    /\ UNCHANGED <<requestVars, events, zoneVars>>

\* Mutant: the row is confirmed before the provider has answered.
ConfirmEarly(r) ==
    /\ pc[r] \in {"creating", "accepted"}
    /\ LoopFree(r)
    /\ row' = [row EXCEPT ![r] = "confirmed"]
    /\ Answer(r, "confirmed")
    /\ UNCHANGED <<requestVars, events, zoneVars>>

\* The answer arrives: the row becomes confirmed / synced.
Confirm(r) ==
    /\ pc[r] = "accepted"
    /\ LoopFree(r)
    /\ row' = [row EXCEPT ![r] = "confirmed"]
    /\ Answer(r, "confirmed")
    /\ UNCHANGED <<requestVars, events, zoneVars>>

\* Mutant: the failure handler writes the sync status into the status column.
ConfirmFailsWrongColumn(r) ==
    /\ pc[r] = "accepted"
    /\ LoopFree(r)
    /\ row' = [row EXCEPT ![r] = "needs_reconciliation"]
    /\ Answer(r, "local_confirmation_failed")
    /\ UNCHANGED <<requestVars, events, zoneVars>>

\* The confirming commit fails: needs_reconciliation, or nothing at all when
\* that commit fails too.
ConfirmFails(r) ==
    /\ pc[r] = "accepted"
    /\ LoopFree(r)
    /\ \/ /\ row' = [row EXCEPT ![r] = "diverged"]
          /\ Answer(r, "local_confirmation_failed")
       \/ Answer(r, "exception") /\ UNCHANGED row
    /\ UNCHANGED <<requestVars, events, zoneVars>>

-----------------------------------------------------------------------------
(* The environment *)

\* An exception create() does not handle, of the database or of a provider whose
\* answer it cannot read, leaves the row as it is and closes the session.
Breaks(r) ==
    /\ pc[r] \notin {"idle", "done"}
    /\ LoopFree(r)
    /\ Answer(r, "exception")
    /\ UNCHANGED <<requestVars, row, events, zoneVars>>

\* A process dies: its calls end where they are, PostgreSQL frees their locks.
Crash(p) ==
    LET dead == {r \in Requests : Home[r] = p /\ pc[r] \notin {"idle", "done"}} IN
    /\ dead # {}
    /\ pc' = [r \in Requests |-> IF r \in dead THEN "done" ELSE pc[r]]
    /\ reply' = [r \in Requests |-> IF r \in dead THEN "crashed" ELSE reply[r]]
    /\ lock' = [w \in LockKeys |-> IF lock[w] \in dead THEN NoRequest ELSE lock[w]]
    /\ UNCHANGED <<requestVars, row, events, zoneVars>>

\* An administrator changes the company's timezone.
ChangeTimezone(z) ==
    /\ tenantZone' = z
    /\ tenantZone # z
    /\ UNCHANGED <<pc, requestVars, row, lock, events, reply, configZone>>

\* What the call does next once it has begun.
Runs(r) ==
    \/ ExternalAnswers(r)
    \/ ReadLocal(r)
    \/ SearchEnds(r)
    \/ LockSlot(r)
    \/ Recheck(r)
    \/ ConflictCheck(r)
    \/ InsertRow(r)
    \/ GetToken(r)
    \/ ProviderAccepts(r)
    \/ ProviderFails(r)
    \/ Confirm(r)
    \/ ConfirmFails(r)

Continue(r) == Runs(r) \/ Breaks(r)

Next ==
    \/ \E r \in Requests : Begin(r) \/ Continue(r)
    \/ \E p \in Processes : Crash(p)
    \/ \E z \in Zones : ChangeTimezone(z)

Spec == Init /\ [][Next]_vars

\* Every await of create() has a timeout and every statement returns, so a call
\* that has begun is run on.  Nobody has to call, fail, crash or change a
\* timezone.
FairSpec == Spec /\ \A r \in Requests : WF_vars(Runs(r))

-----------------------------------------------------------------------------
(* What a booking promises *)

\* The service keeps two calls apart when they run in one process, by the event
\* loop, or when they book exactly the same interval and each kept its advisory
\* lock from lock_slot to its INSERT.  A call whose load_rules commits a changed
\* timezone in between has lost it.
Serialized(r, q) ==
    \/ Home[r] = Home[q]
    \/ LockKey(slot[r]) = LockKey(slot[q]) /\ {r, q} \cap lost = {}

\* Two calls the service keeps apart never both hold bookings that overlap,
\* buffers included, whatever the tenant's timezone does.  Two processes may
\* book overlapping intervals that are not the same one, and the same one once
\* a call has lost its lock.
SerializedBookingsDisjoint ==
    \A r, q \in BlockingRows :
        (r # q /\ Serialized(r, q)) => ~Overlaps(slot[r], slot[q])

\* A call that reports a confirmed booking reports the only row of its key, and
\* that row's own event exists in the provider's calendar: a repeated call gets
\* the same booking, and the 409 answer never stands in for another event.
ConfirmedMeansOneEvent ==
    \A r \in Requests : reply[r] = "confirmed" =>
        \E q \in events :
            /\ row[q] = "confirmed"
            /\ RowsForKey(key[r]) = {q}

\* Every call that began is answered: no lock is held across an await, where
\* it would block the event loop its holder needs.
EveryCallEnds == \A r \in Requests : (pc[r] # "idle") ~> (pc[r] = "done")

\* Two calls whose bookings the service keeps apart, as in the invariant above.
KeptApart == {p \in Requests \X Requests :
    /\ p[1] # p[2]
    /\ Serialized(p[1], p[2])
    /\ Overlaps(slot[p[1]], slot[p[2]])}

\* The booking and the answer of a call as the ledger sees them.
LedgerBooking == [r \in Requests |->
    IF row[r] = "none" THEN "none"
    ELSE IF row[r] = "confirmed" THEN "booked"
    ELSE IF row[r] \in Blocking THEN "held" ELSE "freed"]

LedgerAnswer == [r \in Requests |->
    IF reply[r] \in {"none", "confirmed"} THEN reply[r] ELSE "refused"]

Ledger == INSTANCE BookingLedger WITH
    clash <- KeptApart, booking <- LedgerBooking, answer <- LedgerAnswer

\* create() implements the ledger: whatever the interleaving, a booking is held
\* once per key and against no booking kept apart from it, is settled or freed
\* for good, and every call is answered once, "confirmed" only by a booking
\* that is settled.
ImplementsLedger == Ledger!Spec

\* services/calendar_booking.py: the conflict check covers blocked_start_at to
\* blocked_end_at, so no two bookings of the tenant may overlap.
BookingsDisjoint ==
    \A r, q \in BlockingRows : r # q => ~Overlaps(slot[r], slot[q])

\* lock_slot: competing bookings for the same tenant and slot are serialized.
SameSlotSerialized ==
    \A r, q \in BlockingRows :
        r # q => LockKey(slot[r]) # LockKey(slot[q])

\* A provider error leaves the row failed, so that it blocks nobody.
ProviderErrorsFail ==
    \A r \in Requests :
        reply[r] \in {"token_error", "calendar_event_creation_failed"}
            => row[r] = "failed"
=============================================================================
