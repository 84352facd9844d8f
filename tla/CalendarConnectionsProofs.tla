----------------------- MODULE CalendarConnectionsProofs -----------------------
(***************************************************************************)
(* What holds of a calendar connection for any number of requests that     *)
(* have read it, of authorizations and of tokens, whether the provider     *)
(* rotates refresh tokens and revokes or not.                              *)
(***************************************************************************)
EXTENDS CalendarConnections, TLAPS

Places == {"refresh", "refreshed", "failed", "refused", "list", "busy", "revoke", "revoked"}

\* A request of the calendar page, of a booking or of a search.
Copied ==
    [op : {"use", "sync", "test", "disconnect"}, at : Places, seen : Row,
     answer : Token \cup {None}]
Authorizing ==
    [op : {"callback"}, at : {"exchange", "exchanged"}, seen : States, answer : Token \cup {None}]
Selecting ==
    [op : {"select"}, at : {"select"}, seen : Row,
     answer : [target : Calendars \cup {None}, writable : SUBSET Calendars, to : Calendars]]
Listing ==
    [op : {"use", "sync", "test", "disconnect"}, at : {"upsert"}, seen : Row,
     answer : [target : Calendars \cup {None}]]

\* What a provider refused it refuses from then on; a refresh that was answered had
\* a refresh token.
RequestInv(q) ==
    \/ /\ q \in Copied
       /\ q.at = "refreshed" => q.answer # None /\ q.seen.refresh # None
       /\ q.at \in {"failed", "refused"} => q.answer = None
       /\ q.at = "refused" => ~Accepts(q.seen.refresh)
    \/ q \in Authorizing
    \/ q \in Selecting /\ q.answer.to \in q.answer.writable
    \/ q \in Listing /\ q.seen.access # None

Words == {"given", "withdrawn", "overrun"}

IInv ==
    /\ TypeOK /\ StaysDisconnected
    /\ DOMAIN request = Requests
    /\ \A r \in Requests : request[r] # None => RequestInv(request[r])

Good == AsksForConsent /\ ChoosesWritable

-----------------------------------------------------------------------------
(* Requests *)

LEMMA RowIsNotNone == \A x \in Row \cup Token : x # None
  BY CalendarConnectionsAssumption

LEMMA CopyIsRow ==
  ASSUME IInv, NEW r \in Requests, request[r] # None, request[r].at \in Places
  PROVE  request[r] \in Copied /\ RequestInv(request[r])
  BY DEF IInv, RequestInv, Authorizing, Selecting, Listing, Copied, Places

LEMMA RequestKept ==
  ASSUME TypeOK, revoked' \in Nat, revoked' >= revoked, NEW q, RequestInv(q)
  PROVE  RequestInv(q)'
<1>1. CASE /\ q \in Copied
           /\ q.at = "refreshed" => q.answer # None /\ q.seen.refresh # None
           /\ q.at \in {"failed", "refused"} => q.answer = None
           /\ q.at = "refused" => ~Accepts(q.seen.refresh)
  <2>1. q.seen.refresh \in Token \cup {None} /\ revoked \in Nat
    BY <1>1, CalendarConnectionsAssumption DEF Copied, Row, TypeOK
  <2>2. ~Accepts(q.seen.refresh) => ~Accepts(q.seen.refresh)'
    BY <2>1, CalendarConnectionsAssumption DEF Accepts, Token
  <2> QED
    BY <1>1, <2>2 DEF RequestInv
<1>2. CASE \/ q \in Authorizing \/ (q \in Selecting /\ q.answer.to \in q.answer.writable)
           \/ (q \in Listing /\ q.seen.access # None)
  BY <1>2 DEF RequestInv
<1> QED
  BY <1>1, <1>2 DEF RequestInv

\* One request goes on or is done, the others wait.
LEMMA RequestsKept ==
  ASSUME IInv, revoked' \in Nat, revoked' >= revoked, NEW r \in Requests, NEW q,
         request' = [request EXCEPT ![r] = q], q # None => RequestInv(q)'
  PROVE  /\ DOMAIN request' = Requests
         /\ \A x \in Requests : request'[x] # None => RequestInv(request[x])'
<1>1. /\ DOMAIN request' = Requests /\ request'[r] = q
      /\ \A x \in Requests \ {r} : request'[x] = request[x]
  BY DEF IInv
<1>2. ASSUME NEW x \in Requests \ {r}, request'[x] # None
      PROVE  RequestInv(request[x])'
  <2>1. RequestInv(request[x])
    BY <1>1, <1>2 DEF IInv
  <2> DEFINE y == request[x]
  <2>2. \A z : RequestInv(z) => RequestInv(z)'
    BY RequestKept DEF IInv
  <2> QED
    BY <1>1, <2>1, <2>2
<1> QED
  BY <1>1, <1>2

LEMMA RequestsUnchanged ==
  ASSUME IInv, revoked' \in Nat, revoked' >= revoked, UNCHANGED request
  PROVE  /\ DOMAIN request' = Requests
         /\ \A x \in Requests : request'[x] # None => RequestInv(request[x])'
<1>1. \A z : RequestInv(z) => RequestInv(z)'
  BY RequestKept DEF IInv
<1> QED
  BY <1>1 DEF IInv

-----------------------------------------------------------------------------
(* Commits *)

Column(old, copy, new) == IF new # copy THEN new ELSE old

\* A commit writes the columns that the request has changed.
LEMMA CommitsRow ==
  ASSUME IInv, NEW r \in Requests, request[r].seen \in Row, NEW new \in Row, Commits(r, new),
         new.id = request[r].seen.id
  PROVE  \/ row' = row
         \/ /\ row \in Row /\ row' \in Row /\ ~Gone(r)
            /\ row'.status = Column(row.status, request[r].seen.status, new.status)
            /\ row'.access = Column(row.access, request[r].seen.access, new.access)
            /\ row'.refresh = Column(row.refresh, request[r].seen.refresh, new.refresh)
<1>1. CASE Gone(r)
  BY <1>1 DEF Commits
<1>2. CASE ~Gone(r)
  <2>1. row \in Row /\ row' = Changes(request[r].seen, new)
    BY <1>2 DEF Commits, Gone, IInv, TypeOK
  <2> DEFINE c == [id |-> Column(row.id, request[r].seen.id, new.id),
                   status |-> Column(row.status, request[r].seen.status, new.status),
                   access |-> Column(row.access, request[r].seen.access, new.access),
                   expires |-> Column(row.expires, request[r].seen.expires, new.expires),
                   refresh |-> Column(row.refresh, request[r].seen.refresh, new.refresh)]
  <2>2. Changes(request[r].seen, new) = c
    BY <2>1 DEF Changes, Column, Row
  <2>3. c \in Row
    BY <2>1 DEF Column, Row
  <2> QED
    BY <1>2, <2>1, <2>2, <2>3
<1> QED
  BY <1>1, <1>2

\* A request whose commit leaves the connection and the calendars alone.
LEMMA RowStays ==
  ASSUME IInv, UNCHANGED <<connection, writable, target>>
  PROVE  Good /\ StaysDisconnected'
  BY DEF Good, AsksForConsent, ChoosesWritable, Is, Bookable, StaysDisconnected, connection, IInv

LEMMA IsCopying ==
  ASSUME NEW r \in Requests, request[r] # None, request[r].at \in Places \cup {"upsert"},
         request'[r] # request[r], row # None
  PROVE  Copying(r)
  BY DEF Copying, Places

\* An error is recorded: it says that a new authorization is needed only if a token
\* of the copy was refused.
LEMMA ErrorGood ==
  ASSUME IInv, NEW r \in Requests, request[r] # None, request[r].at \in Places,
         request'[r] # request[r], NEW reauthorize \in BOOLEAN,
         Commits(r, WithError(request[r].seen, reauthorize)), UNCHANGED consent,
         reauthorize => \/ ~Accepts(request[r].seen.refresh)
                        \/ ~Accepts(request[r].seen.access)
  PROVE  /\ row' \in Row \cup {None} /\ (row' = None <=> row = None)
         /\ consent' \in Words /\ AsksForConsent /\ StaysDisconnected'
<1> DEFINE seen == request[r].seen
           new == WithError(seen, reauthorize)
<1>1. seen \in Row /\ row \in Row \cup {None} /\ \A x \in Row : x # None
  BY CopyIsRow, RowIsNotNone DEF Copied, IInv, TypeOK
<1>0. consent' = consent /\ consent \in Words /\ StaysDisconnected
  BY DEF IInv, TypeOK, Words
<1>2. /\ new \in Row /\ new.id = seen.id /\ new.access = seen.access
      /\ new.refresh = seen.refresh
      /\ new.status = IF reauthorize THEN "reauthorization_required" ELSE "error"
  <2> HIDE DEF seen
  <2> QED
    BY <1>1 DEF WithError, Row, Status
<1>3. Commits(r, new)
  OBVIOUS
<1> HIDE DEF new
<1>4. CASE row' = row
  BY <1>0, <1>1, <1>4 DEF AsksForConsent, Is, StaysDisconnected
<1>5. CASE /\ row \in Row /\ row' \in Row
           /\ row'.status = Column(row.status, seen.status, new.status)
           /\ row'.access = Column(row.access, seen.access, new.access)
           /\ row'.refresh = Column(row.refresh, seen.refresh, new.refresh)
  <2>1. /\ row # None /\ row' # None
        /\ row'.access = row.access /\ row'.refresh = row.refresh
        /\ row'.status \in {row.status, new.status}
        /\ new.status \in {"reauthorization_required", "error"}
    BY <1>1, <1>2, <1>5 DEF Column
  <2>2. Copying(r)
    BY <2>1, IsCopying
  <2>3. AsksForConsent
    <3> SUFFICES ASSUME ~Is("reauthorization_required"), Is("reauthorization_required")',
                        Accepts(row.refresh), Tokens(seen) = Tokens(row)
                 PROVE  Mixed
      BY <2>2 DEF AsksForConsent
    <3>1. reauthorize /\ seen.access = row.access /\ seen.refresh = row.refresh
      BY <1>2, <2>1 DEF Is, Tokens
    <3>2. ~Accepts(row.access)
      BY <3>1
    <3> QED
      BY <3>2, <1>5, CalendarConnectionsAssumption DEF Mixed, Accepts, Row, Token
  <2>4. StaysDisconnected'
    BY <1>0, <2>1 DEF StaysDisconnected
  <2> QED
    BY <1>0, <1>5, <2>1, <2>3, <2>4
<1> QED
  BY <1>1, <1>2, <1>3, <1>4, <1>5, CommitsRow

\* An answer of the provider makes a connection of the copy, which had a token: over
\* a disconnection only if that is noted.
LEMMA ConnectedGood ==
  ASSUME IInv, NEW r \in Requests, request[r] # None, request[r].seen \in Row,
         request[r].at \in Places \cup {"upsert"}, request'[r] # request[r],
         NEW new \in Row, new.id = request[r].seen.id,
         new.status = "connected", Commits(r, new),
         \/ request[r].seen.refresh # None
         \/ request[r].seen.access # None,
         NEW late, Overruns(late),
         Late(r) /\ (request[r].seen.status = "connected" => Tokens(new) # Tokens(request[r].seen))
         => late
  PROVE  /\ row' \in Row \cup {None} /\ (row' = None <=> row = None)
         /\ consent' \in Words /\ AsksForConsent /\ StaysDisconnected'
<1> DEFINE seen == request[r].seen
<1>1. seen \in Row /\ row \in Row \cup {None} /\ \A x \in Row : x # None
  BY RowIsNotNone DEF IInv, TypeOK
<1>2. /\ consent' \in Words /\ StaysDisconnected
      /\ consent' = "withdrawn" => consent = "withdrawn" /\ ~late
  BY DEF IInv, TypeOK, Words, Overruns
<1>3. CASE row' = row
  BY <1>1, <1>2, <1>3 DEF AsksForConsent, Is, StaysDisconnected
<1>4. CASE /\ row \in Row /\ row' \in Row /\ ~Gone(r)
           /\ row'.status = Column(row.status, seen.status, new.status)
           /\ row'.access = Column(row.access, seen.access, new.access)
           /\ row'.refresh = Column(row.refresh, seen.refresh, new.refresh)
  <2>1. /\ row # None /\ row' # None
        /\ row'.status = IF seen.status # "connected" THEN "connected" ELSE row.status
    BY <1>1, <1>4 DEF Column
  <2>2. AsksForConsent
    BY <2>1 DEF AsksForConsent, Is
  <2>3. ASSUME consent' = "withdrawn"
        PROVE  row'.access = None /\ row'.refresh = None /\ row'.status # "connected"
    <3>1. row.access = None /\ row.refresh = None /\ row.status # "connected" /\ ~late
      BY <1>2, <2>1, <2>3 DEF StaysDisconnected
    <3>2. Late(r)
      BY <1>4, <3>1 DEF Late, Tokens
    <3>3. seen.status = "connected" /\ new.access = seen.access /\ new.refresh = seen.refresh
      BY <3>1, <3>2 DEF Tokens
    <3> QED
      BY <1>4, <3>1, <3>3 DEF Column
  <2> QED
    BY <1>2, <1>4, <2>1, <2>2, <2>3 DEF StaysDisconnected
<1> QED
  BY <1>1, <1>3, <1>4, CommitsRow

-----------------------------------------------------------------------------
(* Steps *)

\* The rest of a step that writes nothing but the row and the request.
LEMMA RowStep ==
  ASSUME IInv, NEW r \in Requests, request[r] # None, request[r].at \in Places,
         NEW q, request' = [request EXCEPT ![r] = q], q # None => RequestInv(q)',
         UNCHANGED <<calendars, booked, state, provider>>,
         row' \in Row \cup {None}, row' = None <=> row = None,
         consent' \in Words, AsksForConsent, StaysDisconnected'
  PROVE  IInv' /\ Good
<1>1. revoked' \in Nat /\ revoked' >= revoked
  BY CalendarConnectionsAssumption DEF provider, IInv, TypeOK
<1>2. TypeOK'
  BY DEF IInv, TypeOK, calendars, provider, Words
<1>3. ChoosesWritable
  BY DEF ChoosesWritable, Bookable, calendars
<1> QED
  BY <1>1, <1>2, <1>3, RequestsKept DEF IInv, Good

LEMMA BeginStep ==
  ASSUME IInv, NEW r \in Requests, NEW op \in {"use", "sync", "test", "disconnect"},
         Begin(r, op)
  PROVE  IInv' /\ Good
<1>1. revoked' \in Nat /\ revoked' >= revoked
  BY CalendarConnectionsAssumption DEF Begin, provider, IInv, TypeOK
<1>2. row \in Row /\ request[r] = None
  BY DEF Begin, IInv, TypeOK
<1>3. CASE row.refresh = None /\ row' = WithError(row, TRUE) /\ UNCHANGED request
  <2>1. row' \in Row /\ row'.status = "reauthorization_required" /\ ~Accepts(row.refresh)
    BY <1>2, <1>3 DEF WithError, Row, Status, Accepts
  <2>2. row' # None
    BY <2>1, RowIsNotNone
  <2>3. TypeOK'
    BY <2>1, <2>2 DEF Begin, IInv, TypeOK, calendars, provider
  <2>4. Good
    BY <2>1 DEF Begin, Good, AsksForConsent, ChoosesWritable, Is, Bookable, calendars
  <2>5. StaysDisconnected'
    <3>1. row'.access = row.access /\ row'.refresh = row.refresh
      BY <1>2, <1>3 DEF WithError, Row
    <3> QED
      BY <1>2, <2>1, <3>1, RowIsNotNone DEF Begin, StaysDisconnected, IInv
  <2> QED
    BY <1>1, <1>3, <2>3, <2>4, <2>5, RequestsUnchanged DEF IInv
<1>4. CASE UNCHANGED <<row, request>>
  <2>1. TypeOK'
    BY <1>4 DEF Begin, IInv, TypeOK, calendars, provider
  <2> QED
    BY <1>1, <1>4, <2>1, RequestsUnchanged, RowStays DEF IInv, Begin, calendars, connection
<1>5. ASSUME NEW at \in Places \ {"refreshed", "failed", "refused"}, UNCHANGED row,
             request' = [request EXCEPT ![r] =
                           [op |-> op, at |-> at, seen |-> row, answer |-> None]]
      PROVE  IInv' /\ Good
  <2>1. PICK q : q = [op |-> op, at |-> at, seen |-> row, answer |-> None]
    OBVIOUS
  <2>2. RequestInv(q)'
    BY <1>2, <1>5, <2>1 DEF RequestInv, Copied
  <2>3. TypeOK'
    BY <1>5 DEF Begin, IInv, TypeOK, calendars, provider
  <2>4. request' = [request EXCEPT ![r] = q]
    BY <1>5, <2>1
  <2>5. Good /\ StaysDisconnected'
    BY <1>5, RowStays DEF Begin, calendars, connection
  <2> QED
    BY <1>1, <2>2, <2>3, <2>4, <2>5, RequestsKept DEF IInv
<1> QED
  BY <1>3, <1>4, <1>5 DEF Begin, Places

\* Steps that change neither the row nor the calendars.
LEMMA AnswerStep ==
  ASSUME IInv, NEW r \in Requests, NEW q, request' = [request EXCEPT ![r] = q],
         q # None => RequestInv(q)', UNCHANGED <<connection, calendars, booked>>,
         state' \in [States -> {"none", "open", "consumed"}], code' \subseteq States,
         issued' \in 0..MaxTokens, granted' \in 0..issued', revoked' \in 0..granted',
         revoked' >= revoked, expired' \in 0..issued'
  PROVE  IInv' /\ Good
<1>1. TypeOK'
  BY DEF IInv, TypeOK, calendars, connection
<1>2. revoked' \in Nat
  BY CalendarConnectionsAssumption
<1> QED
  BY <1>1, <1>2, RequestsKept, RowStays DEF IInv, calendars

LEMMA RefreshAtProviderStep ==
  ASSUME IInv, NEW r \in Requests, RefreshAtProvider(r)
  PROVE  IInv' /\ Good
<1> DEFINE seen == request[r].seen
<1>1. /\ request[r] \in Copied /\ request[r].at = "refresh" /\ request[r] # None
      /\ UNCHANGED <<connection, calendars, booked, state, code, granted, revoked, expired>>
  BY CopyIsRow DEF RefreshAtProvider, Places
<1>2. seen.refresh \in Token \cup {None}
  BY <1>1 DEF Copied, Row
<1>3. ASSUME NEW at \in {"refreshed", "failed", "refused"}, NEW answer \in Token \cup {None},
             Answers(r, at, answer), issued' \in issued..MaxTokens,
             IF at = "refreshed" THEN answer # None /\ seen.refresh # None ELSE answer = None,
             at = "refused" => ~Accepts(seen.refresh)
      PROVE  IInv' /\ Good
  <2>1. PICK q : q = [request[r] EXCEPT !.at = at, !.answer = answer]
    OBVIOUS
  <2>2. /\ q \in Copied /\ q.at = at /\ q.answer = answer
        /\ q.seen.refresh = seen.refresh
    BY <1>1, <1>3, <2>1 DEF Copied, Places
  <2>3. request' = [request EXCEPT ![r] = q]
    BY <1>1, <1>3, <2>1 DEF Answers, IInv, Copied
  <2>4. \A t : Accepts(t)' <=> Accepts(t)
    BY <1>1 DEF Accepts
  <2>5. RequestInv(q)'
    <3>1. at = "refreshed" => q.answer # None /\ q.seen.refresh # None
      BY <1>3, <2>2
    <3>2. at \in {"failed", "refused"} => q.answer = None
      BY <1>3, <2>2
    <3>3. at = "refused" => ~Accepts(q.seen.refresh)
      BY <1>3, <2>2
    <3> QED
      BY <2>2, <2>4, <3>1, <3>2, <3>3 DEF RequestInv
  <2>6. /\ state' \in [States -> {"none", "open", "consumed"}] /\ code' \subseteq States
        /\ issued' \in 0..MaxTokens /\ granted' \in 0..issued' /\ revoked' \in 0..granted'
        /\ revoked' >= revoked /\ expired' \in 0..issued'
    BY <1>1, <1>3, CalendarConnectionsAssumption DEF IInv, TypeOK
  <2> QED
    BY <1>1, <2>3, <2>5, <2>6, AnswerStep
<1>4. CASE Accepts(seen.refresh) /\ issued < MaxTokens /\ issued' = issued + 1
           /\ Answers(r, "refreshed", Issue(seen.refresh.grant))
  <2>1. Issue(seen.refresh.grant) \in Token /\ seen.refresh # None
    BY <1>2, <1>4, CalendarConnectionsAssumption DEF Issue, Token, Accepts, IInv, TypeOK
  <2>2. Issue(seen.refresh.grant) # None /\ issued' \in issued..MaxTokens
    BY <1>4, <2>1, RowIsNotNone, CalendarConnectionsAssumption DEF IInv, TypeOK
  <2> QED
    BY <1>3, <1>4, <2>1, <2>2
<1>5. CASE Answers(r, "failed", None) /\ UNCHANGED issued
  <2>1. issued' \in issued..MaxTokens
    BY <1>5, CalendarConnectionsAssumption DEF IInv, TypeOK
  <2> QED
    BY <1>3, <1>5, <2>1
<1>6. CASE ~Accepts(seen.refresh) /\ Answers(r, "refused", None) /\ UNCHANGED issued
  <2>1. issued' \in issued..MaxTokens
    BY <1>6, CalendarConnectionsAssumption DEF IInv, TypeOK
  <2> QED
    BY <1>3, <1>6, <2>1
<1> QED
  BY <1>4, <1>5, <1>6 DEF RefreshAtProvider

LEMMA GoesOnRequest ==
  ASSUME IInv, NEW r \in Requests, request[r] # None, request[r].at \in Places,
         NEW at \in {"list", "busy"}, request[r].at # at, NEW new \in Row, GoesOn(r, at, new)
  PROVE  /\ request'[r] # request[r]
         /\ \E q : request' = [request EXCEPT ![r] = q] /\ (q # None => RequestInv(q)')
<1>1. request[r] \in Copied
  BY CopyIsRow
<1>2. CASE Gone(r)
  BY <1>2 DEF GoesOn, Done, IInv
<1>3. CASE ~Gone(r)
  <2>1. PICK q : q = [request[r] EXCEPT !.at = at, !.seen = new, !.answer = None]
    OBVIOUS
  <2>2. q \in Copied /\ q.at = at
    BY <1>1, <2>1 DEF Copied, Places
  <2>3. request' = [request EXCEPT ![r] = q]
    BY <1>1, <1>3, <2>1 DEF GoesOn, IInv, Copied
  <2>4. request'[r] # request[r]
    BY <2>2, <2>3 DEF IInv
  <2> QED
    BY <2>2, <2>3, <2>4 DEF RequestInv
<1> QED
  BY <1>2, <1>3

LEMMA RecordErrorStep ==
  ASSUME IInv, NEW r \in Requests, request[r] # None, request[r].at \in Places,
         NEW reauthorize \in BOOLEAN, RecordError(r, reauthorize),
         UNCHANGED <<booked, state, provider>>,
         reauthorize => \/ ~Accepts(request[r].seen.refresh)
                        \/ ~Accepts(request[r].seen.access)
  PROVE  IInv' /\ Good
<1>1. request' = [request EXCEPT ![r] = None] /\ request'[r] # request[r]
  BY DEF RecordError, Done, IInv
<1> QED
  BY <1>1, ErrorGood, RowStep DEF RecordError

LEMMA RefreshReplyStep ==
  ASSUME IInv, NEW r \in Requests, RefreshReply(r)
  PROVE  IInv' /\ Good
<1> DEFINE seen == request[r].seen
           answer == request[r].answer
           new == [seen EXCEPT !.access = answer, !.expires = answer.serial,
                               !.refresh = IF Rotates THEN answer ELSE @,
                               !.status = "connected"]
<1>1. /\ request[r] # None /\ request[r].at \in {"refreshed", "failed", "refused"}
      /\ request[r] \in Copied /\ RequestInv(request[r])
      /\ UNCHANGED <<booked, state, provider>>
  BY CopyIsRow DEF RefreshReply, Places
<1>2. request[r].at \in Places
  BY <1>1 DEF Places
<1>3. CASE answer = None
  <2>1. request[r].at = "refused" => ~Accepts(seen.refresh)
    BY <1>1 DEF RequestInv, Authorizing, Selecting, Listing
  <2>2. RecordError(r, request[r].at = "refused")
    BY <1>3 DEF RefreshReply
  <2> QED
    BY <1>1, <1>2, <2>1, <2>2, RecordErrorStep
<1>4. CASE answer # None
  <2>1. answer \in Token /\ seen \in Row /\ seen.refresh # None
    BY <1>1, <1>4 DEF RequestInv, Copied, Authorizing, Selecting, Listing
  <2>2. new \in Row /\ new.id = seen.id /\ new.status = "connected"
    <3> HIDE DEF seen, answer
    <3>1. answer.serial \in 1..MaxTokens
      BY <2>1 DEF Token
    <3> QED
      BY <2>1, <3>1 DEF Row, Status
  <2>3. Commits(r, new) /\ Overruns(Late(r)) /\ UNCHANGED calendars
    BY <1>4 DEF RefreshReply
  <2>4. IF request[r].op = "use" THEN Done(r) ELSE GoesOn(r, "list", new)
    BY <1>4 DEF RefreshReply
  <2> HIDE DEF new
  <2>5. /\ request'[r] # request[r]
        /\ \E q : request' = [request EXCEPT ![r] = q] /\ (q # None => RequestInv(q)')
    <3>1. CASE Done(r)
      BY <1>1, <3>1 DEF Done, IInv
    <3>2. CASE GoesOn(r, "list", new)
      BY <1>1, <1>2, <2>2, <3>2, GoesOnRequest
    <3> QED
      BY <2>4, <3>1, <3>2
  <2>6. /\ row' \in Row \cup {None} /\ (row' = None <=> row = None)
        /\ consent' \in Words /\ AsksForConsent /\ StaysDisconnected'
    BY <1>1, <1>2, <2>1, <2>2, <2>3, <2>5, ConnectedGood
  <2>7. PICK q : request' = [request EXCEPT ![r] = q] /\ (q # None => RequestInv(q)')
    BY <2>5
  <2> QED
    BY <1>1, <1>2, <2>3, <2>6, <2>7, RowStep
<1> QED
  BY <1>3, <1>4

\* What the answer of the provider to a request that has a token leaves of the row.
LEMMA ConnectsGood ==
  ASSUME IInv, NEW r \in Requests, request[r] # None, request[r].seen \in Row,
         request[r].at \in Places \cup {"upsert"},
         request'[r] # request[r], request[r].seen.access # None, Connects(r)
  PROVE  /\ row' \in Row \cup {None} /\ (row' = None <=> row = None)
         /\ consent' \in Words /\ AsksForConsent /\ StaysDisconnected'
<1> DEFINE seen == request[r].seen
           new == [seen EXCEPT !.status = "connected"]
<1>1. seen \in Row /\ seen.access # None
  OBVIOUS
<1>2. /\ new \in Row /\ new.id = seen.id /\ new.status = "connected"
      /\ new.access = seen.access /\ new.refresh = seen.refresh
  <2> HIDE DEF seen
  <2> QED
    BY <1>1 DEF Row, Status
<1>3. Commits(r, new) /\ Overruns(Late(r) /\ seen.status # "connected")
  BY DEF Connects
<1>4. Tokens(new) = Tokens(seen)
  BY <1>2 DEF Tokens
<1> HIDE DEF new
<1> QED
  BY <1>1, <1>2, <1>3, <1>4, ConnectedGood

LEMMA BusyReplyStep ==
  ASSUME IInv, NEW r \in Requests, BusyReply(r)
  PROVE  IInv' /\ Good
<1>1. /\ request[r] # None /\ request[r].at \in Places /\ request[r].seen \in Row
      /\ UNCHANGED <<booked, state, provider>>
  BY CopyIsRow DEF BusyReply, Places, Copied
<1>2. CASE ~Accepts(request[r].seen.access) /\ RecordError(r, TRUE)
  BY <1>1, <1>2, RecordErrorStep
<1>3. CASE RecordError(r, FALSE)
  BY <1>1, <1>3, RecordErrorStep
<1>4. CASE /\ Accepts(request[r].seen.access) /\ Connects(r)
           /\ Done(r) /\ UNCHANGED calendars
  <2>1. request' = [request EXCEPT ![r] = None] /\ request'[r] # request[r]
    BY <1>1, <1>4 DEF Done, IInv
  <2>2. request[r].seen.access # None
    BY <1>4 DEF Accepts
  <2> QED
    BY <1>1, <1>4, <2>1, <2>2, ConnectsGood, RowStep
<1> QED
  BY <1>2, <1>3, <1>4 DEF BusyReply

LEMMA ListReplyStep ==
  ASSUME IInv, NEW r \in Requests, ListReply(r)
  PROVE  IInv' /\ Good
<1>1. /\ request[r] # None /\ request[r].at = "list" /\ request[r].at \in Places
      /\ UNCHANGED <<booked, state, provider>> /\ request[r] \in Copied
  BY CopyIsRow DEF ListReply, Places
<1>2. CASE ~Accepts(request[r].seen.access) /\ RecordError(r, TRUE)
  BY <1>1, <1>2, RecordErrorStep
<1>3. CASE RecordError(r, FALSE)
  BY <1>1, <1>3, RecordErrorStep
<1>4. CASE /\ Accepts(request[r].seen.access)
           /\ Answers(r, "upsert", [target |-> target])
           /\ UNCHANGED <<connection, calendars>>
  <2>1. PICK a, q : a = [target |-> target] /\ q = [request[r] EXCEPT !.at = "upsert", !.answer = a]
    OBVIOUS
  <2>2. a \in [target : Calendars \cup {None}] /\ request[r].seen.access # None
    BY <1>4, <2>1 DEF IInv, TypeOK, Accepts
  <2>3. q \in Listing /\ q.seen = request[r].seen
    BY <1>1, <2>1, <2>2 DEF Listing, Copied
  <2>4. RequestInv(q)' /\ request' = [request EXCEPT ![r] = q]
    BY <1>1, <1>4, <2>1, <2>2, <2>3 DEF RequestInv, Answers, IInv, Copied
  <2>5. /\ state' \in [States -> {"none", "open", "consumed"}] /\ code' \subseteq States
        /\ issued' \in 0..MaxTokens /\ granted' \in 0..issued' /\ revoked' \in 0..granted'
        /\ revoked' >= revoked /\ expired' \in 0..issued'
    BY <1>1, CalendarConnectionsAssumption DEF IInv, TypeOK, provider
  <2> QED
    BY <1>1, <1>4, <2>4, <2>5, AnswerStep
<1> QED
  BY <1>2, <1>3, <1>4 DEF ListReply

\* The list leaves no target that cannot be written to, if it has read the choice.
LEMMA UpsertStep ==
  ASSUME IInv, NEW r \in Requests, UpsertCalendarMetadata(r)
  PROVE  IInv' /\ Good
<1> DEFINE new == [request[r].seen EXCEPT !.status = "connected"]
<1>1. /\ request[r] # None /\ request[r].at = "upsert" /\ request[r] \in Listing
      /\ request[r].seen.access # None /\ request[r].seen \in Row
      /\ UNCHANGED <<booked, state, provider>> /\ Connects(r)
  BY DEF UpsertCalendarMetadata, IInv, RequestInv, Authorizing, Selecting, Listing, Copied,
         Places
<1>2. new \in Row
  BY <1>1 DEF Row, Status
<1>3. IF request[r].op = "test" THEN GoesOn(r, "busy", new) ELSE Done(r)
  BY DEF UpsertCalendarMetadata
<1> HIDE DEF new
<1>4. /\ request'[r] # request[r]
      /\ \E q : request' = [request EXCEPT ![r] = q] /\ (q # None => RequestInv(q)')
  <2>1. CASE Done(r)
    BY <1>1, <2>1 DEF Done, IInv
  <2>2. CASE GoesOn(r, "busy", new)
    <3>1. CASE Gone(r)
      BY <1>1, <2>2, <3>1 DEF GoesOn, Done, IInv
    <3>2. CASE ~Gone(r)
      <4>1. PICK q : q = [request[r] EXCEPT !.at = "busy", !.seen = new, !.answer = None]
        OBVIOUS
      <4>2. q \in Copied /\ q.at = "busy" /\ RequestInv(q)'
        BY <1>1, <1>2, <4>1 DEF RequestInv, Copied, Listing, Places
      <4>3. request' = [request EXCEPT ![r] = q]
        BY <1>1, <2>2, <3>2, <4>1 DEF GoesOn, IInv, Listing
      <4>4. request'[r] # request[r]
        BY <1>1, <4>2, <4>3 DEF IInv
      <4> QED
        BY <4>2, <4>3, <4>4
    <3> QED
      BY <3>1, <3>2
  <2> QED
    BY <1>3, <2>1, <2>2
<1>5. /\ row' \in Row \cup {None} /\ (row' = None <=> row = None)
      /\ consent' \in Words /\ AsksForConsent /\ StaysDisconnected'
  BY <1>1, <1>4, ConnectsGood
<1>6. /\ listed' \subseteq Calendars /\ writable' \subseteq listed'
      /\ target' \in listed' \cup {None}
      /\ Bookable /\ ~Bookable' => request[r].answer.target # target
  <2>1. CASE UNCHANGED calendars
    BY <2>1 DEF calendars, IInv, TypeOK, Bookable
  <2>2. ASSUME NEW S \in SUBSET Calendars, NEW W \in SUBSET S,
               listed' = listed \cup S, writable' = (writable \ S) \cup W,
               target' = TargetAfter(r, S \ W)
        PROVE  <1>6!:
    BY <2>2 DEF TargetAfter, IInv, TypeOK, Bookable
  <2> QED
    BY <2>1, <2>2 DEF UpsertCalendarMetadata
<1>7. TypeOK'
  BY <1>1, <1>5, <1>6 DEF IInv, TypeOK, provider, Words
<1>8. revoked' \in Nat /\ revoked' >= revoked
  BY <1>1, CalendarConnectionsAssumption DEF provider, IInv, TypeOK
<1>9. IInv'
  BY <1>4, <1>5, <1>7, <1>8, RequestsKept DEF IInv
<1>10. ChoosesWritable
  BY <1>1, <1>4, <1>6 DEF ChoosesWritable, Misses
<1> QED
  BY <1>5, <1>9, <1>10 DEF Good

LEMMA RevokeAtProviderStep ==
  ASSUME IInv, NEW r \in Requests, RevokeAtProvider(r)
  PROVE  IInv' /\ Good
<1>1. /\ request[r] # None /\ request[r] \in Copied
      /\ Answers(r, "revoked", None)
      /\ UNCHANGED <<connection, calendars, booked, state, code, issued, granted, expired>>
      /\ revoked' \in {revoked, granted}
  BY CopyIsRow DEF RevokeAtProvider, Places
<1>2. PICK q : q = [request[r] EXCEPT !.at = "revoked", !.answer = None]
  OBVIOUS
<1>3. q \in Copied /\ q.at = "revoked"
  BY <1>1, <1>2 DEF Copied, Places
<1>4. request' = [request EXCEPT ![r] = q] /\ RequestInv(q)'
  BY <1>1, <1>2, <1>3 DEF Answers, RequestInv, IInv, Copied
<1>5. /\ state' \in [States -> {"none", "open", "consumed"}] /\ code' \subseteq States
      /\ issued' \in 0..MaxTokens /\ granted' \in 0..issued' /\ revoked' \in 0..granted'
      /\ revoked' >= revoked /\ expired' \in 0..issued'
  BY <1>1, CalendarConnectionsAssumption DEF IInv, TypeOK
<1> QED
  BY <1>1, <1>4, <1>5, AnswerStep

\* Without tokens: what is left of the access token is always written, the refresh
\* token only if the copy had one.
LEMMA DisconnectReplyStep ==
  ASSUME IInv, NEW r \in Requests, DisconnectReply(r)
  PROVE  IInv' /\ Good
<1> DEFINE seen == request[r].seen
           new == [seen EXCEPT !.status = "disconnected", !.access = None,
                               !.expires = None, !.refresh = None]
           unwritten == \/ seen.refresh = None /\ row.refresh # None
                        \/ seen.status = "disconnected" /\ row.status # "disconnected"
<1>1. /\ request[r] # None /\ request[r].at \in Places /\ seen \in Row
      /\ request' = [request EXCEPT ![r] = None] /\ request'[r] # request[r]
      /\ UNCHANGED <<booked, state, provider>>
  BY CopyIsRow DEF DisconnectReply, Places, Copied, Done, IInv
<1>2. revoked' \in Nat /\ revoked' >= revoked
  BY <1>1, CalendarConnectionsAssumption DEF provider, IInv, TypeOK
<1>3. DOMAIN request' = Requests /\ \A x \in Requests : request'[x] # None => RequestInv(request[x])'
  BY <1>1, <1>2, RequestsKept
<1>4. CASE Gone(r) /\ UNCHANGED <<connection, calendars>>
  <2>1. TypeOK'
    BY <1>1, <1>4 DEF IInv, TypeOK, calendars, provider, connection
  <2> QED
    BY <1>1, <1>3, <1>4, <2>1, RowStays DEF IInv, calendars
<1>5. CASE /\ ~Gone(r) /\ ~booked /\ row' = None /\ consent' = "withdrawn"
           /\ listed' = {} /\ writable' = {} /\ target' = None
  <2>1. Good /\ StaysDisconnected'
    BY <1>5 DEF Good, AsksForConsent, ChoosesWritable, Is, Bookable, StaysDisconnected
  <2> QED
    BY <1>1, <1>3, <1>5, <2>1 DEF IInv, TypeOK, provider
<1>6. CASE /\ ~Gone(r) /\ booked /\ row' = [Changes(seen, new) EXCEPT !.access = None]
           /\ consent' \in {"overrun", "withdrawn"}
           /\ consent' = "withdrawn" => ~unwritten
           /\ target' = None /\ UNCHANGED <<listed, writable>>
  <2>1. /\ row' = [Changes(seen, new) EXCEPT !.access = None] /\ target' = None
        /\ UNCHANGED <<listed, writable>> /\ consent' \in Words
    BY <1>6 DEF Words
  <2>2. row \in Row
    BY <1>6 DEF Gone, IInv, TypeOK
  <2>3. /\ new \in Row /\ new.id = seen.id /\ new.status = "disconnected" /\ new.access = None
        /\ new.expires = None /\ new.refresh = None
    <3> HIDE DEF seen
    <3> QED
      BY <1>1 DEF Row, Status
  <2> HIDE DEF new, seen
  <2> DEFINE c == [id |-> Column(row.id, seen.id, new.id),
                   status |-> Column(row.status, seen.status, new.status),
                   access |-> None,
                   expires |-> Column(row.expires, seen.expires, new.expires),
                   refresh |-> Column(row.refresh, seen.refresh, new.refresh)]
  <2>4. [Changes(seen, new) EXCEPT !.access = None] = c
    <3>1. PICK i, st, ac, ex, re :
             /\ i = Column(row.id, seen.id, new.id)
             /\ st = Column(row.status, seen.status, new.status)
             /\ ac = Column(row.access, seen.access, new.access)
             /\ ex = Column(row.expires, seen.expires, new.expires)
             /\ re = Column(row.refresh, seen.refresh, new.refresh)
      OBVIOUS
    <3>2. Changes(seen, new) =
             [id |-> i, status |-> st, access |-> ac, expires |-> ex, refresh |-> re]
      BY <2>2, <3>1 DEF Changes, Column, Row
    <3>3. c = [id |-> i, status |-> st, access |-> None, expires |-> ex, refresh |-> re]
      BY <3>1
    <3> HIDE DEF c
    <3> QED
      BY <3>2, <3>3
  <2>5. c \in Row
    BY <2>2, <2>3 DEF Column, Row
  <2>6. /\ row' \in Row /\ row'.access = None
        /\ row'.status = Column(row.status, seen.status, "disconnected")
        /\ row'.refresh = Column(row.refresh, seen.refresh, None)
    BY <2>1, <2>3, <2>4, <2>5
  <2>7. row # None /\ row' # None /\ Copying(r)
    BY <1>1, <2>2, <2>6, RowIsNotNone, IsCopying
  <2>8. StaysDisconnected'
    <3> SUFFICES ASSUME consent' = "withdrawn"
                 PROVE  row'.refresh = None /\ row'.status # "connected"
      BY <2>6 DEF StaysDisconnected
    <3>1. /\ ~(seen.refresh = None /\ row.refresh # None)
          /\ ~(seen.status = "disconnected" /\ row.status # "disconnected")
      BY <1>6
    <3> QED
      BY <2>6, <3>1 DEF Column
  <2>9. AsksForConsent /\ ChoosesWritable
    BY <2>1, <2>6, <2>7 DEF AsksForConsent, ChoosesWritable, Is, Bookable, Column
  <2> QED
    BY <1>1, <1>3, <2>1, <2>6, <2>7, <2>8, <2>9 DEF IInv, TypeOK, Good, provider, Words
<1>7. \/ Gone(r) /\ UNCHANGED <<connection, calendars>>
      \/ /\ ~Gone(r) /\ booked /\ row' = [Changes(seen, new) EXCEPT !.access = None]
         /\ consent' = IF unwritten THEN "overrun" ELSE "withdrawn"
         /\ target' = None /\ UNCHANGED <<listed, writable>>
      \/ /\ ~Gone(r) /\ ~booked /\ row' = None /\ consent' = "withdrawn"
         /\ listed' = {} /\ writable' = {} /\ target' = None
  BY DEF DisconnectReply
<1> HIDE DEF new, unwritten
<1> QED
  BY <1>4, <1>5, <1>6, <1>7

LEMMA CallbackStep ==
  ASSUME IInv, NEW r \in Requests, NEW s \in States, Callback(r, s)
  PROVE  IInv' /\ Good
<1>1. /\ UNCHANGED <<connection, calendars, booked, provider>>
      /\ state' \in [States -> {"none", "open", "consumed"}]
  BY DEF Callback, IInv, TypeOK
<1>2. /\ code' \subseteq States
      /\ issued' \in 0..MaxTokens /\ granted' \in 0..issued' /\ revoked' \in 0..granted'
      /\ revoked' >= revoked /\ expired' \in 0..issued'
  BY <1>1, CalendarConnectionsAssumption DEF IInv, TypeOK, provider
<1>3. CASE UNCHANGED request
  <2>1. TypeOK' /\ revoked' \in Nat
    BY <1>1, <1>2, CalendarConnectionsAssumption DEF IInv, TypeOK, calendars, connection
  <2> QED
    BY <1>1, <1>2, <1>3, <2>1, RequestsUnchanged, RowStays DEF IInv, calendars
<1>4. CASE request' = [request EXCEPT ![r] = [op |-> "callback", at |-> "exchange",
                                               seen |-> s, answer |-> None]]
  <2>1. PICK q : q = [op |-> "callback", at |-> "exchange", seen |-> s, answer |-> None]
    OBVIOUS
  <2>2. RequestInv(q)' /\ request' = [request EXCEPT ![r] = q]
    BY <1>4, <2>1 DEF RequestInv, Authorizing
  <2> QED
    BY <1>1, <1>2, <2>2, AnswerStep
<1> QED
  BY <1>3, <1>4 DEF Callback

LEMMA AuthorizingRequest ==
  ASSUME IInv, NEW r \in Requests, request[r] # None,
         request[r].at \in {"exchange", "exchanged"}
  PROVE  request[r] \in Authorizing
  BY DEF IInv, RequestInv, Copied, Selecting, Listing, Places

LEMMA ExchangeAtProviderStep ==
  ASSUME IInv, NEW r \in Requests, ExchangeAtProvider(r)
  PROVE  IInv' /\ Good
<1>1. /\ request[r] \in Authorizing /\ UNCHANGED <<connection, calendars, booked, state, revoked, expired>>
      /\ code' \subseteq States
  BY AuthorizingRequest DEF ExchangeAtProvider, IInv, TypeOK
<1>2. ASSUME NEW answer \in Token \cup {None}, Answers(r, "exchanged", answer),
             issued' \in 0..MaxTokens, granted' \in 0..issued', granted' >= granted,
             issued' >= issued
      PROVE  IInv' /\ Good
  <2>1. PICK q : q = [request[r] EXCEPT !.at = "exchanged", !.answer = answer]
    OBVIOUS
  <2>2. q \in Authorizing
    BY <1>1, <1>2, <2>1 DEF Authorizing
  <2>3. RequestInv(q)' /\ request' = [request EXCEPT ![r] = q]
    BY <1>1, <1>2, <2>1, <2>2 DEF RequestInv, Answers, IInv, Authorizing
  <2>4. /\ revoked' \in 0..granted' /\ revoked' >= revoked /\ expired' \in 0..issued'
        /\ state' \in [States -> {"none", "open", "consumed"}]
    BY <1>1, <1>2, CalendarConnectionsAssumption DEF IInv, TypeOK
  <2> QED
    BY <1>1, <1>2, <2>3, <2>4, AnswerStep
<1>3. CASE issued < MaxTokens /\ issued' = issued + 1 /\ granted' = granted + 1
           /\ Answers(r, "exchanged", Issue(granted + 1))
  <2>1. Issue(granted + 1) \in Token
    BY <1>3, CalendarConnectionsAssumption DEF Issue, Token, IInv, TypeOK
  <2>2. issued' \in 0..MaxTokens /\ granted' \in 0..issued' /\ granted' >= granted
        /\ issued' >= issued
    BY <1>3, CalendarConnectionsAssumption DEF IInv, TypeOK
  <2> QED
    BY <1>2, <1>3, <2>1, <2>2
<1>4. CASE Answers(r, "exchanged", None) /\ UNCHANGED <<issued, granted>>
  <2>1. issued' \in 0..MaxTokens /\ granted' \in 0..issued' /\ granted' >= granted
        /\ issued' >= issued
    BY <1>4, CalendarConnectionsAssumption DEF IInv, TypeOK
  <2> QED
    BY <1>2, <1>4, <2>1
<1> QED
  BY <1>3, <1>4 DEF ExchangeAtProvider

LEMMA CallbackReplyStep ==
  ASSUME IInv, NEW r \in Requests, CallbackReply(r)
  PROVE  IInv' /\ Good
<1> DEFINE answer == request[r].answer
<1>1. /\ request[r] # None /\ request[r].at = "exchanged" /\ request[r] \in Authorizing
      /\ UNCHANGED <<calendars, provider>>
  BY AuthorizingRequest DEF CallbackReply
<1>2. /\ state' \in [States -> {"none", "open", "consumed"}]
      /\ revoked' \in Nat /\ revoked' >= revoked
  BY <1>1, CalendarConnectionsAssumption DEF CallbackReply, Authorizing, provider, IInv, TypeOK
<1>3. CASE answer = None
  <2>1. request' = [request EXCEPT ![r] = None] /\ UNCHANGED <<connection, booked>>
    BY <1>3 DEF CallbackReply, Done
  <2>2. TypeOK'
    BY <1>1, <1>2, <2>1 DEF IInv, TypeOK, calendars, provider, connection
  <2> QED
    BY <1>1, <1>2, <2>1, <2>2, RequestsKept, RowStays DEF IInv, calendars
<1>4. CASE answer # None
  <2>1. PICK new : new = [id |-> IF row = None THEN answer.grant ELSE row.id,
                          status |-> "connected", access |-> answer,
                          expires |-> answer.serial, refresh |-> answer]
    OBVIOUS
  <2>2. answer \in Token
    BY <1>1, <1>4 DEF Authorizing
  <2>3. new \in Row /\ new.status = "connected"
    <3>1. answer.grant \in 1..MaxTokens /\ answer.serial \in 1..MaxTokens
      BY <2>2 DEF Token
    <3>2. row # None => row.id \in 1..MaxTokens
      BY DEF IInv, TypeOK, Row
    <3> HIDE DEF answer
    <3> QED
      BY <2>1, <2>2, <3>1, <3>2 DEF Row, Status
  <2>4. /\ row' = new /\ consent' = "given" /\ booked' = (row # None /\ booked)
        /\ request' = [request EXCEPT ![r] = [op |-> "sync", at |-> "list", seen |-> new,
                                               answer |-> None]]
    BY <1>4, <2>1 DEF CallbackReply
  <2>5. PICK q : q = [op |-> "sync", at |-> "list", seen |-> new, answer |-> None]
    OBVIOUS
  <2>6. RequestInv(q)' /\ request' = [request EXCEPT ![r] = q]
    BY <2>3, <2>4, <2>5 DEF RequestInv, Copied, Places
  <2>7. new # None
    BY <2>3, RowIsNotNone
  <2>8. TypeOK'
    BY <1>1, <1>2, <2>3, <2>4, <2>7 DEF IInv, TypeOK, calendars, provider
  <2>9. Good /\ StaysDisconnected'
    BY <1>1, <2>3, <2>4
    DEF Good, AsksForConsent, ChoosesWritable, Is, Bookable, StaysDisconnected, calendars
  <2> QED
    BY <1>2, <2>6, <2>8, <2>9, RequestsKept DEF IInv
<1> QED
  BY <1>3, <1>4

LEMMA LoadSelectionStep ==
  ASSUME IInv, NEW r \in Requests, NEW k \in Calendars, LoadSelection(r, k)
  PROVE  IInv' /\ Good
<1>1. row \in Row /\ UNCHANGED <<connection, calendars, booked, state, provider>>
  BY DEF LoadSelection, IInv, TypeOK
<1>2. PICK q : q = [op |-> "select", at |-> "select", seen |-> row,
                    answer |-> [target |-> target, writable |-> writable, to |-> k]]
  OBVIOUS
<1>3. target \in Calendars \cup {None} /\ writable \subseteq Calendars
  BY DEF IInv, TypeOK
<1>4. RequestInv(q)' /\ request' = [request EXCEPT ![r] = q]
  BY <1>1, <1>2, <1>3 DEF RequestInv, Selecting, LoadSelection
<1>5. /\ state' \in [States -> {"none", "open", "consumed"}] /\ code' \subseteq States
      /\ issued' \in 0..MaxTokens /\ granted' \in 0..issued' /\ revoked' \in 0..granted'
      /\ revoked' >= revoked /\ expired' \in 0..issued'
  BY <1>1, CalendarConnectionsAssumption DEF IInv, TypeOK, provider
<1> QED
  BY <1>1, <1>4, <1>5, AnswerStep

\* A choice could be written to when it was read.
LEMMA CommitSelectionStep ==
  ASSUME IInv, NEW r \in Requests, CommitSelection(r)
  PROVE  IInv' /\ Good
<1> DEFINE choice == request[r].answer
<1>1. /\ request[r] # None /\ request[r].at = "select"
      /\ request' = [request EXCEPT ![r] = None]
      /\ target' = target \/ (target' = choice.to /\ choice.to \in listed)
      /\ UNCHANGED <<connection, listed, writable, booked, state, provider>>
  BY DEF CommitSelection, Done
<1>2. request[r] \in Selecting /\ choice.to \in choice.writable /\ request'[r] = None
  BY <1>1 DEF IInv, RequestInv, Copied, Authorizing, Selecting, Listing, Places
<1>3. TypeOK' /\ revoked' \in Nat /\ revoked' >= revoked
  BY <1>1, CalendarConnectionsAssumption DEF IInv, TypeOK, provider, connection
<1>4. ChoosesWritable
  <2>1. choice.writable = writable => (Bookable => Bookable')
    BY <1>1, <1>2 DEF Bookable
  <2> QED
    BY <1>1, <1>2, <2>1 DEF ChoosesWritable, Misses
<1>5. AsksForConsent /\ StaysDisconnected'
  BY <1>1 DEF AsksForConsent, Is, StaysDisconnected, connection, IInv
<1> QED
  BY <1>1, <1>3, <1>4, <1>5, RequestsKept DEF IInv, Good

LEMMA DiesStep ==
  ASSUME IInv, NEW r \in Requests, Dies(r)
  PROVE  IInv' /\ Good
<1>1. /\ request' = [request EXCEPT ![r] = None]
      /\ UNCHANGED <<connection, calendars, booked, state, provider>>
  BY DEF Dies, Done
<1>2. TypeOK' /\ revoked' \in Nat /\ revoked' >= revoked
  BY <1>1, CalendarConnectionsAssumption DEF IInv, TypeOK, calendars, provider, connection
<1> QED
  BY <1>1, <1>2, RequestsKept, RowStays DEF IInv, calendars

\* What happens around the requests.
LEMMA AroundStep ==
  ASSUME IInv, \/ \E s \in States : StartOAuth(s)
               \/ Book \/ AccessTokenExpires \/ ConsentWithdrawn \/ UNCHANGED vars
  PROVE  IInv' /\ Good
<1> USE CalendarConnectionsAssumption
<1>1. /\ UNCHANGED <<connection, calendars, request>>
      /\ revoked' \in Nat /\ revoked' >= revoked
  BY DEF StartOAuth, Book, AccessTokenExpires, ConsentWithdrawn, vars, provider, IInv, TypeOK
<1>2. TypeOK'
  <2>1. ASSUME NEW s \in States, StartOAuth(s) PROVE TypeOK'
    BY <2>1 DEF StartOAuth, IInv, TypeOK, calendars, connection
  <2>2. CASE Book
    BY <2>2 DEF Book, IInv, TypeOK, calendars, connection, provider
  <2>3. CASE AccessTokenExpires
    BY <2>3 DEF AccessTokenExpires, IInv, TypeOK, calendars, connection
  <2>4. CASE ConsentWithdrawn
    BY <2>4 DEF ConsentWithdrawn, IInv, TypeOK, calendars, connection
  <2>5. CASE UNCHANGED vars
    BY <2>5 DEF vars, IInv, TypeOK, calendars, connection, provider
  <2> QED
    BY <2>1, <2>2, <2>3, <2>4, <2>5
<1> QED
  BY <1>1, <1>2, RequestsUnchanged, RowStays DEF IInv, calendars

-----------------------------------------------------------------------------
LEMMA InitIInv == Init => IInv
<1> SUFFICES ASSUME Init PROVE IInv
  OBVIOUS
<1>1. /\ row = None /\ consent = "withdrawn" /\ booked = FALSE
      /\ listed \subseteq Calendars /\ writable \subseteq listed /\ target \in listed \cup {None}
  BY DEF Init
<1>2. state \in [States -> {"none", "open", "consumed"}] /\ code \subseteq States
  BY DEF Init
<1>3. issued \in 0..MaxTokens /\ granted \in 0..issued /\ revoked \in 0..granted /\ expired \in 0..issued
  BY CalendarConnectionsAssumption DEF Init
<1>4. DOMAIN request = Requests /\ \A r \in Requests : request[r] = None
  BY DEF Init
<1> QED
  BY <1>1, <1>2, <1>3, <1>4 DEF IInv, TypeOK, StaysDisconnected

LEMMA NextStep == IInv /\ [Next]_vars => IInv' /\ Good
  BY BeginStep, RefreshAtProviderStep, RefreshReplyStep, ListReplyStep, UpsertStep, BusyReplyStep,
     RevokeAtProviderStep, DisconnectReplyStep, CallbackStep, ExchangeAtProviderStep,
     CallbackReplyStep, LoadSelectionStep, CommitSelectionStep, DiesStep, AroundStep
  DEF Next, EventLoop

LEMMA Invariant == Spec => []IInv
  BY InitIInv, NextStep, PTL DEF Spec

LEMMA EveryStepGood == Spec => [][Good]_vars
  BY Invariant, NextStep, PTL DEF Spec

\* The row, the calendars and the provider's tokens keep their types for any numbers
\* of requests and tokens.
THEOREM TypesHold == Spec => []TypeOK
  BY Invariant, PTL DEF IInv

\* Whatever the order of replies: a request that read the tokens there are asks for
\* a new authorization only if the provider refused them.
THEOREM ConsentAskedTruly == Spec => ReauthorizationIsTrue
<1>1. Good => AsksForConsent
  BY DEF Good
<1> QED
  BY <1>1, EveryStepGood, PTL DEF ReauthorizationIsTrue

\* For any number of requests: from a disconnection to the next authorization the
\* connection has no tokens and is not "connected", whatever is recorded on it,
\* unless a request that had read other tokens wrote over the disconnection.
THEOREM DisconnectLasts == Spec => []StaysDisconnected
  BY Invariant, PTL DEF IInv

\* The booking calendar stops to be writable only by the commit of a choice or of a
\* synchronisation that has missed the other's, whatever else runs.
THEOREM TargetStaysWritable == Spec => TargetWritable
<1>1. Good => ChoosesWritable
  BY DEF Good
<1> QED
  BY <1>1, EveryStepGood, PTL DEF TargetWritable

=============================================================================
