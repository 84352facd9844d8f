-------------------------- MODULE CalendarConnections --------------------------
(***************************************************************************)
(* The connection of a company to one account of a calendar provider:      *)
(* authorization, refresh of its tokens, synchronisation, test, choice of  *)
(* the booking calendar, disconnection.  A request keeps the rows it has   *)
(* read (expire_on_commit is off) over its calls to the provider, and its  *)
(* commits write the columns in which its copy then differs from what it   *)
(* read: the rows may be others by then.  Requests that call the provider   *)
(* run in the event loop of the one process, the choice of the booking     *)
(* calendar in a thread.  A token is known by the authorization it comes   *)
(* from and by its serial number.                                          *)
(***************************************************************************)
EXTENDS Naturals

CONSTANTS
    Requests, States, Calendars,
    MaxTokens,    \* bound: tokens the provider issues
    Rotates,      \* a refresh returns a refresh token too (Microsoft), or not (Google)
    Revokes,      \* the provider revokes on request (Google), or cannot (Microsoft)
    None

Token == [grant : 1..MaxTokens, serial : 1..MaxTokens]
Status == {"connected", "error", "reauthorization_required", "disconnected"}
Row == [id : 1..MaxTokens, status : Status, access : Token \cup {None},
        expires : 1..MaxTokens \cup {None}, refresh : Token \cup {None}]

ASSUME CalendarConnectionsAssumption ==
    /\ MaxTokens \in Nat /\ Rotates \in BOOLEAN /\ Revokes \in BOOLEAN
    /\ None \notin Token \cup Row \cup Calendars

VARIABLES
    row,          \* the connection; expires: when the token of this number does, or never
    listed,       \* external_calendars of the connection
    writable,     \* those with can_write
    target,       \* the calendar with is_selected_for_booking
    booked,       \* a booking refers to the connection
    consent,      \* history: the user's last word, and whether it was written over
    request,      \* the copy of a request, where it waits, and what it was answered
    state,        \* OAuth states
    code,         \* authorization codes that are not used yet
    issued,       \* tokens the provider has issued
    granted,      \* the last authorization the provider has
    revoked,      \* authorizations up to this one are revoked
    expired       \* access tokens up to this one have expired

calendars == <<listed, writable, target>>
provider == <<code, issued, granted, revoked, expired>>
connection == <<row, consent>>
vars == <<connection, calendars, booked, request, state, provider>>

-----------------------------------------------------------------------------
(* Rows and the copies requests have of them *)

Fresh(copy) == IF copy.expires = None THEN TRUE ELSE copy.expires > expired
Accepts(token) == IF token = None THEN FALSE ELSE token.grant > revoked

\* Mutant: a commit writes every column of the copy.
ChangesAll(copy, new) == new

\* The columns in which the copy now differs from what was read.
Changes(copy, new) == [f \in DOMAIN row |-> IF new[f] # copy[f] THEN new[f] ELSE row[f]]

\* An update of a row that is gone fails, and the request with it.
Gone(r) == IF row = None THEN TRUE ELSE row.id # request[r].seen.id
Commits(r, new) == row' = IF Gone(r) THEN row ELSE Changes(request[r].seen, new)
Done(r) == request' = [request EXCEPT ![r] = None]
GoesOn(r, at, new) ==
    IF Gone(r) THEN Done(r)
    ELSE request' = [request EXCEPT ![r].at = at, ![r].seen = new, ![r].answer = None]

Tokens(copy) == <<copy.access, copy.refresh>>

\* Another request has changed the tokens since this one read them.
Late(r) == ~Gone(r) /\ Tokens(request[r].seen) # Tokens(row)

\* A late commit of tokens, or of the status, writes over a disconnection.
Overruns(late) == consent' = IF late /\ consent = "withdrawn" THEN "overrun" ELSE consent

\* Mutant: a failure of the provider is taken for a refusal.
WithRefusal(copy, reauthorize) == [copy EXCEPT !.status = "reauthorization_required"]

\* record_connection_error()
WithError(copy, reauthorize) ==
    [copy EXCEPT !.status = IF reauthorize THEN "reauthorization_required" ELSE "error"]
RecordError(r, reauthorize) ==
    /\ Commits(r, WithError(request[r].seen, reauthorize)) /\ Done(r)
    /\ UNCHANGED <<calendars, consent>>

Issue(grant) == [grant |-> grant, serial |-> issued + 1]

-----------------------------------------------------------------------------
(* A request reads the connection *)

\* Callers of valid_access_token() that book or look for times use it if it is
\* connected; the calendar page synchronises, tests and disconnects any.
Begin(r, op) ==
    /\ request[r] = None /\ row # None
    /\ op = "use" => row.status = "connected"
    /\ LET at == IF op = "disconnect" THEN "revoke"
                 ELSE IF ~Fresh(row) THEN "refresh"
                 ELSE IF op = "use" THEN "done" ELSE "list"
       IN IF at = "refresh" /\ row.refresh = None
          THEN /\ row' = WithError(row, TRUE)
               /\ UNCHANGED request
          ELSE /\ request' = IF at = "done" THEN request
                             ELSE [request EXCEPT ![r] =
                                      [op |-> op, at |-> at, seen |-> row, answer |-> None]]
               /\ UNCHANGED row
    /\ UNCHANGED <<consent, calendars, booked, state, provider>>

Answers(r, at, answer) == request' = [request EXCEPT ![r].at = at, ![r].answer = answer]

-----------------------------------------------------------------------------
(* valid_access_token() *)

RefreshAtProvider(r) ==
    /\ request[r] # None /\ request[r].at = "refresh"
    /\ IF Accepts(request[r].seen.refresh)
       THEN \/ /\ issued < MaxTokens /\ issued' = issued + 1
               /\ Answers(r, "refreshed", Issue(request[r].seen.refresh.grant))
            \/ Answers(r, "failed", None) /\ UNCHANGED issued
       ELSE Answers(r, "refused", None) /\ UNCHANGED issued
    /\ UNCHANGED <<connection, calendars, booked, state, code, granted, revoked, expired>>

RefreshReply(r) ==
    LET answer == request[r].answer
        seen == request[r].seen
        new == [seen EXCEPT !.access = answer, !.expires = answer.serial,
                            !.refresh = IF Rotates THEN answer ELSE @, !.status = "connected"]
    IN /\ request[r] # None /\ request[r].at \in {"refreshed", "failed", "refused"}
       /\ IF answer = None
          THEN RecordError(r, request[r].at = "refused")
          ELSE /\ Commits(r, new) /\ Overruns(Late(r))
               /\ IF request[r].op = "use" THEN Done(r) ELSE GoesOn(r, "list", new)
               /\ UNCHANGED calendars
       /\ UNCHANGED <<booked, state, provider>>

-----------------------------------------------------------------------------
(* synchronize_calendars(), test_connection() *)

\* The status is written if the copy has another.
Connects(r) ==
    LET seen == request[r].seen
    IN /\ Commits(r, [seen EXCEPT !.status = "connected"])
       /\ Overruns(Late(r) /\ seen.status # "connected")

\* list_calendars() is answered; a refused token needs a new authorization.
\* upsert_calendar_metadata() begins to read the calendars.
ListReply(r) ==
    /\ request[r] # None /\ request[r].at = "list"
    /\ \/ ~Accepts(request[r].seen.access) /\ RecordError(r, TRUE)
       \/ RecordError(r, FALSE)
       \/ /\ Accepts(request[r].seen.access)
          /\ Answers(r, "upsert", [target |-> target])
          /\ UNCHANGED <<connection, calendars>>
    /\ UNCHANGED <<booked, state, provider>>

\* Mutant: the target stays what it is.
NoTarget(r, unwritable) == target

\* A target that is not writable is no target any more: if the copy has it.
TargetAfter(r, unwritable) ==
    IF target \in unwritable /\ request[r].answer.target = target THEN None ELSE target

\* upsert_calendar_metadata() commits what the provider has listed.
UpsertCalendarMetadata(r) ==
    /\ request[r] # None /\ request[r].at = "upsert"
    /\ Connects(r)
    /\ IF Gone(r) THEN UNCHANGED calendars
       ELSE \E S \in SUBSET Calendars : \E W \in SUBSET S :
               /\ listed' = listed \cup S
               /\ writable' = (writable \ S) \cup W
               /\ target' = TargetAfter(r, S \ W)
    /\ IF request[r].op = "test"
       THEN GoesOn(r, "busy", [request[r].seen EXCEPT !.status = "connected"])
       ELSE Done(r)
    /\ UNCHANGED <<booked, state, provider>>

\* get_busy_intervals() is answered.
BusyReply(r) ==
    /\ request[r] # None /\ request[r].at = "busy"
    /\ \/ ~Accepts(request[r].seen.access) /\ RecordError(r, TRUE)
       \/ RecordError(r, FALSE)
       \/ /\ Accepts(request[r].seen.access)
          /\ Connects(r) /\ Done(r)
          /\ UNCHANGED calendars
    /\ UNCHANGED <<booked, state, provider>>

-----------------------------------------------------------------------------
(* disconnect_connection() *)

\* Google revokes the authorizations of the account, Microsoft cannot; a failure is
\* ignored.
RevokeAtProvider(r) ==
    LET seen == request[r].seen
        token == IF seen.refresh # None THEN seen.refresh ELSE seen.access
    IN /\ request[r] # None /\ request[r].at = "revoke"
       /\ Answers(r, "revoked", None)
       /\ \/ Revokes /\ Accepts(token) /\ revoked' = granted
          \/ UNCHANGED revoked
       /\ UNCHANGED <<connection, calendars, booked, state, code, issued, granted, expired>>

\* Mutant: the row is deleted although a booking refers to it.
DisconnectReplyDeletes(r) ==
    /\ request[r] # None /\ request[r].at = "revoked"
    /\ IF Gone(r) THEN UNCHANGED <<row, calendars>>
       ELSE row' = None /\ listed' = {} /\ writable' = {} /\ target' = None
    /\ consent' = "withdrawn" /\ Done(r)
    /\ UNCHANGED <<booked, state, provider>>

\* The row is deleted, or kept without tokens if a booking refers to it.  What
\* replaces the access token is encrypted anew, so that column is always written;
\* the others are if the copy does not say already what they are to be.
DisconnectReply(r) ==
    LET seen == request[r].seen
        new == [seen EXCEPT !.status = "disconnected", !.access = None, !.expires = None,
                            !.refresh = None]
        unwritten == \/ seen.refresh = None /\ row.refresh # None
                     \/ seen.status = "disconnected" /\ row.status # "disconnected"
    IN /\ request[r] # None /\ request[r].at = "revoked"
       /\ \/ Gone(r) /\ UNCHANGED <<connection, calendars>>
          \/ /\ ~Gone(r) /\ booked
             /\ row' = [Changes(seen, new) EXCEPT !.access = None]
             /\ consent' = IF unwritten THEN "overrun" ELSE "withdrawn"
             /\ target' = None /\ UNCHANGED <<listed, writable>>
          \/ /\ ~Gone(r) /\ ~booked
             /\ row' = None /\ consent' = "withdrawn"
             /\ listed' = {} /\ writable' = {} /\ target' = None
       /\ Done(r)
       /\ UNCHANGED <<booked, state, provider>>

-----------------------------------------------------------------------------
(* calendar_oauth.py *)

StartOAuth(s) ==
    /\ state[s] = "none"
    /\ state' = [state EXCEPT ![s] = "open"]
    /\ code' = code \cup {s}
    /\ UNCHANGED <<connection, calendars, booked, request, issued, granted, revoked, expired>>

\* The provider sends the user back, perhaps more than once: with a code, or
\* without the permission; the user may have lost the membership meanwhile.
Callback(r, s) ==
    /\ request[r] = None /\ state[s] = "open"
    /\ \/ state' = [state EXCEPT ![s] = "consumed"] /\ UNCHANGED request
       \/ /\ request' = [request EXCEPT ![r] = [op |-> "callback", at |-> "exchange",
                                                seen |-> s, answer |-> None]]
          /\ UNCHANGED state
    /\ UNCHANGED <<connection, calendars, booked, provider>>

\* exchange_authorization_code(), get_account_information(): a code works once.
ExchangeAtProvider(r) ==
    /\ request[r] # None /\ request[r].at = "exchange"
    /\ code' = code \ {request[r].seen}
    /\ \/ /\ request[r].seen \in code /\ issued < MaxTokens
          /\ issued' = issued + 1 /\ granted' = granted + 1
          /\ Answers(r, "exchanged", Issue(granted + 1))
       \/ Answers(r, "exchanged", None) /\ UNCHANGED <<issued, granted>>
    /\ UNCHANGED <<connection, calendars, booked, state, revoked, expired>>

\* complete_oauth(): the row of the account is replaced or inserted, and its
\* calendars are synchronised.
CallbackReply(r) ==
    LET answer == request[r].answer
        new == [id |-> IF row = None THEN answer.grant ELSE row.id,
                status |-> "connected", access |-> answer, expires |-> answer.serial,
                refresh |-> answer]
    IN /\ request[r] # None /\ request[r].at = "exchanged"
       /\ state' = [state EXCEPT ![request[r].seen] = "consumed"]
       /\ IF answer = None
          THEN Done(r) /\ UNCHANGED <<connection, booked>>
          ELSE /\ row' = new /\ consent' = "given"
               /\ request' = [request EXCEPT ![r] = [op |-> "sync", at |-> "list", seen |-> new,
                                                      answer |-> None]]
               /\ booked' = (row # None /\ booked)
       /\ UNCHANGED <<calendars, provider>>

-----------------------------------------------------------------------------
(* update_calendar_selection(), in a thread, and what happens around the connection *)

LoadSelection(r, k) ==
    /\ request[r] = None /\ row # None
    /\ k \in listed \cap writable
    /\ request' = [request EXCEPT ![r] = [op |-> "select", at |-> "select", seen |-> row,
                                          answer |-> [target |-> target, writable |-> writable, to |-> k]]]
    /\ UNCHANGED <<connection, calendars, booked, state, provider>>

\* One booking calendar of a company (a partial unique index).
CommitSelection(r) ==
    LET choice == request[r].answer
    IN /\ request[r] # None /\ request[r].at = "select"
       /\ IF ~Gone(r) /\ choice.to \in listed /\ target \in {None, choice.target, choice.to}
          THEN target' = choice.to
          ELSE UNCHANGED target
       /\ Done(r)
       /\ UNCHANGED <<connection, listed, writable, booked, state, provider>>

\* finalize() of a booking; its steps are the subject of module CalendarBooking.
Book ==
    /\ row # None /\ row.status = "connected" /\ target \in writable
    /\ ~booked /\ booked' = TRUE
    /\ UNCHANGED <<connection, calendars, request, state, provider>>

\* Bound: the last token the provider may issue does not expire.
AccessTokenExpires ==
    /\ \E n \in 1..issued : expired < n /\ n < MaxTokens /\ expired' = n
    /\ UNCHANGED <<connection, calendars, booked, request, state, code, issued, granted, revoked>>

\* The user withdraws the application's access at the provider.
ConsentWithdrawn ==
    /\ revoked < granted /\ revoked' = granted
    /\ UNCHANGED <<connection, calendars, booked, request, state, code, issued, granted, expired>>

\* The process dies or the client goes away while the request waits.
Dies(r) ==
    /\ request[r] # None /\ Done(r)
    /\ UNCHANGED <<connection, calendars, booked, state, provider>>

\* upsert_calendar_metadata() does not await: only threads go on beside it.
LoopIsFree == \A r \in Requests : request[r] # None => request[r].at # "upsert"

EventLoop ==
    \/ \E r \in Requests :
          \/ \E op \in {"use", "sync", "test", "disconnect"} : Begin(r, op)
          \/ RefreshReply(r) \/ ListReply(r) \/ BusyReply(r) \/ DisconnectReply(r)
          \/ \E s \in States : Callback(r, s)
          \/ CallbackReply(r)
    \/ Book

Next ==
    \/ LoopIsFree /\ EventLoop
    \/ \E r \in Requests :
          \/ RefreshAtProvider(r) \/ RevokeAtProvider(r) \/ ExchangeAtProvider(r)
          \/ UpsertCalendarMetadata(r)
          \/ \E k \in Calendars : LoadSelection(r, k)
          \/ CommitSelection(r)
          \/ Dies(r)
    \/ \E s \in States : StartOAuth(s)
    \/ AccessTokenExpires \/ ConsentWithdrawn

Init ==
    /\ row = None /\ consent = "withdrawn" /\ listed = {} /\ writable = {} /\ target = None
    /\ booked = FALSE /\ request = [r \in Requests |-> None]
    /\ state = [s \in States |-> "none"] /\ code = {}
    /\ issued = 0 /\ granted = 0 /\ revoked = 0 /\ expired = 0

Spec == Init /\ [][Next]_vars

-----------------------------------------------------------------------------
(* Properties *)

TypeOK ==
    /\ row \in Row \cup {None} /\ consent \in {"given", "withdrawn", "overrun"}
    /\ listed \subseteq Calendars /\ writable \subseteq listed
    /\ target \in listed \cup {None} /\ booked \in BOOLEAN
    /\ booked => row # None
    /\ state \in [States -> {"none", "open", "consumed"}] /\ code \subseteq States
    /\ issued \in 0..MaxTokens /\ granted \in 0..issued /\ revoked \in 0..granted
    /\ expired \in 0..issued

Is(status) == row # None /\ row.status = status

\* The step of a request whose copy of the connection is this one.
Copying(r) ==
    IF row = None \/ request[r] = None THEN FALSE
    ELSE request[r].at \notin {"exchange", "exchanged", "select"} /\ request'[r] # request[r]
Mixed == IF row.access = None THEN TRUE ELSE row.access.grant # row.refresh.grant
Bookable == target \in writable \cup {None}

\* A commit of calendars that have changed since the request read them: a choice
\* that rests on another list of writable ones, or a list on another choice.
Misses(r) ==
    \/ request[r].at = "select" /\ request[r].answer.writable # writable
    \/ request[r].at = "upsert" /\ request[r].answer.target # target

AsksForConsent ==
    ~Is("reauthorization_required") /\ Is("reauthorization_required")' /\ Accepts(row.refresh)
    => \/ Mixed
       \/ \E r \in Requests : Copying(r) /\ Tokens(request[r].seen) # Tokens(row)

ChoosesWritable ==
    Bookable /\ ~Bookable'
    => \E r \in Requests : request[r] # None /\ Misses(r) /\ request'[r] # request[r]

\* A connection is said to need a new authorization only if the provider has
\* refused the authorization it has, unless the request that says so read it
\* before it changed, or another that did has left the connection with an access
\* token and a refresh token that do not belong together (valid_access_token(),
\* record_connection_error(), disconnect_connection()).
ReauthorizationIsTrue == [][AsksForConsent]_vars

\* From a disconnection to the next authorization the connection is gone, or it has
\* no tokens and is not "connected", whatever was recorded on it since: unless a
\* request that had read other tokens commits tokens or the status afterwards, or
\* the copy of the request that disconnects said that nothing was left to erase
\* (disconnect_connection(), valid_access_token(), record_connection_error()).
\* "Disconnect ... loescht ihre Tokens" (docs/calendar-integrations.md) does not
\* hold for such late commits.
StaysDisconnected ==
    consent = "withdrawn" /\ row # None
    => row.access = None /\ row.refresh = None /\ row.status # "connected"

\* The booking calendar can be written to, unless a choice and a synchronisation
\* have each read the calendars before the other committed
\* (update_calendar_selection(), upsert_calendar_metadata()).
TargetWritable == [][ChoosesWritable]_vars

=============================================================================
