------------------------------- MODULE Sessions -------------------------------
(***************************************************************************)
(* The password of a user, the reset tokens for it and the sessions it     *)
(* opened: login, the choice of a company, passwords changed by the user,  *)
(* by a manager, by an operator and by a token, and what the handlers of   *)
(* module Accounts do to them.  As there, a handler commits what it        *)
(* decided on the rows it read, at once or after others have committed.    *)
(***************************************************************************)
EXTENDS Naturals

CONSTANTS
    Companies, Sessions, Tokens,
    Requests,     \* handlers that may be held between their reads and their commit
    MaxSecrets,   \* bound: changes of the password
    MaxOvertaken, \* bound: commits between the reads and the commit of a handler
    None

ASSUME SessionsAssumption ==
    None \notin Companies \cup BOOLEAN /\ MaxSecrets \in Nat /\ MaxOvertaken \in Nat

VARIABLES
    active,       \* AppUser.is_active
    raised,       \* the user has a platform role
    member,       \* companies with an active membership
    usable,       \* companies in trial or active
    secret,       \* password_hash: which of the passwords chosen so far it is of
    newest,       \* how many were chosen
    outdated,     \* the hash was made with earlier parameters
    must,         \* must_change_password
    session,      \* the sessions that have not ended
    token,        \* the reset tokens
    held,         \* what a held handler is going to commit
    uses,         \* history: how often a token has set a password
    doubled,      \* history: tokens sent by requests that ran at the same time
    excused       \* history: the sessions SessionsEnd makes an exception of

access == <<active, raised, member, usable>>
tables == <<access, secret, newest, outdated, must, session, token>>
history == <<uses, doubled, excused>>
vars == <<tables, held, history>>

-----------------------------------------------------------------------------
(* A commit *)

\* begins: a new session; its password is the one read, unless this commit sets one.
\* lapsed: the user is deactivated through a membership that has ended.
Nothing ==
    [active |-> None, raised |-> FALSE, joins |-> {}, leaves |-> {},
     opens |-> {}, closes |-> {}, secret |-> "kept", read |-> 0, must |-> None,
     ends |-> {}, begins |-> {}, token |-> [t \in {} |-> None], locks |-> {},
     lapsed |-> FALSE]

Value(new, old) == IF new = None THEN old ELSE new

Begun(w) == {b.id : b \in w.begins}
Sent(w) == {t \in DOMAIN w.token : w.token[t] = "open"}
Used(w) == {t \in DOMAIN w.token : w.token[t] = "used"}

\* The password is another one, or the user is deactivated.
Cuts(w) == secret' # secret \/ w.active = FALSE

Stores(w) ==
    /\ w.secret = "new" => newest < MaxSecrets
    /\ active' = Value(w.active, active)
    /\ raised' = (raised \/ w.raised)
    /\ member' = (member \ w.leaves) \cup w.joins
    /\ usable' = (usable \ w.closes) \cup w.opens
    /\ newest' = IF w.secret = "new" THEN newest + 1 ELSE newest
    /\ secret' = CASE w.secret = "kept" -> secret
                   [] w.secret = "new" -> newest + 1
                   [] w.secret = "rehashed" -> w.read
    /\ outdated' = (outdated /\ w.secret = "kept")
    /\ must' = Value(w.must, must)
    /\ session' = [s \in Sessions |->
          IF s \in w.ends THEN None
          ELSE IF s \in Begun(w)
          THEN LET b == CHOOSE b \in w.begins : b.id = s
               IN [at |-> b.at, on |-> IF w.secret = "new" THEN newest + 1 ELSE b.on]
          ELSE session[s]]
    /\ token' = [t \in Tokens |-> IF t \in DOMAIN w.token THEN w.token[t] ELSE token[t]]

\* What is remembered of a commit, by what others have committed since its reads.
Remembers(w, since) ==
    /\ uses' = [t \in Tokens |-> IF t \in Used(w) THEN uses[t] + 1 ELSE uses[t]]
    /\ doubled' = doubled \cup IF Sent(w) # {} /\ since.sent # {} THEN Sent(w) \cup since.sent ELSE {}
    /\ excused' = {s \in Sessions : session'[s] # None /\
          \/ s \in excused \ Begun(w)
          \/ s \in since.begun /\ Cuts(w)
          \/ s \in Begun(w) /\ since.cut
          \/ w.lapsed /\ w.active = FALSE}

\* Columns that are as they were read are not written.
Changed(w) ==
    [w EXCEPT !.active = IF @ = active THEN None ELSE @,
              !.must = IF @ = must THEN None ELSE @,
              !.joins = @ \ member, !.leaves = @ \cap member,
              !.opens = @ \ usable, !.closes = @ \cap usable]

\* Mutant: the token is read without FOR UPDATE.
LockedNever(t) == FALSE

\* reset_password() keeps its token under FOR UPDATE until it commits.
Locked(t) == \E r \in Requests : held[r] # None /\ t \in held[r].write.locks

\* What has been committed since the reads of a handler.
Untouched == [commits |-> 0, begun |-> {}, cut |-> FALSE, sent |-> {}]

After(since, w) ==
    [commits |-> since.commits + 1, begun |-> since.begun \cup Begun(w),
     cut |-> since.cut \/ Cuts(w), sent |-> since.sent \cup Sent(w)]

Overtakes(h, w) ==
    [r \in Requests |-> IF h[r] = None THEN None ELSE [h[r] EXCEPT !.since = After(@, w)]]
MayOvertake(h) == \A r \in Requests : h[r] # None => h[r].since.commits < MaxOvertaken

Finish(w) ==
    \/ /\ ~ \E t \in DOMAIN w.token : Locked(t)
       /\ MayOvertake(held)
       /\ Stores(w) /\ Remembers(w, Untouched) /\ held' = Overtakes(held, w)
    \/ \E r \in Requests :
          /\ held[r] = None
          /\ held' = [held EXCEPT ![r] = [write |-> Changed(w), since |-> Untouched]]
          /\ UNCHANGED <<tables, history>>

Resume(r) ==
    /\ held[r] # None
    /\ LET w == held[r].write
           others == [held EXCEPT ![r] = None]
       IN /\ ~ \E t \in DOMAIN w.token \ w.locks : Locked(t)
          /\ MayOvertake(others)
          /\ Stores(w) /\ Remembers(w, held[r].since) /\ held' = Overtakes(others, w)

\* The process dies or the connection is lost: the transaction is rolled back.
Dies(r) ==
    /\ held[r] # None
    /\ held' = [held EXCEPT ![r] = None]
    /\ UNCHANGED <<tables, history>>

-----------------------------------------------------------------------------
(* Sessions *)

\* A row nobody refers to: every new session has a token of its own.
Unused(s) ==
    /\ session[s] = None
    /\ \A r \in Requests : held[r] # None =>
          s \notin held[r].write.ends \cup Begun(held[r].write)

NewSession(w, at) ==
    \E s \in Sessions :
       /\ Unused(s)
       /\ Finish([w EXCEPT !.begins = {[id |-> s, at |-> at, on |-> secret]}])

\* revoke_user_sessions(), revoke_tenant_sessions(): the sessions as they are read
Live == {s \in Sessions : session[s] # None}
LiveAt(c) == {s \in Live : session[s].at = c}

HasAccess(at) ==
    /\ active
    /\ \/ raised
       \/ at = None /\ member # {}
       \/ at \in member \cap usable

\* With the right password, which is hashed anew if its hash is outdated; a user of
\* one company enters it.
Login ==
    LET w == [Nothing EXCEPT !.secret = IF outdated THEN "rehashed" ELSE "kept",
                             !.read = secret]
    IN /\ active /\ (raised \/ member # {})
       /\ IF ~raised /\ \E c \in Companies : member = {c}
          THEN \E c \in member \cap usable : NewSession(w, c)
          ELSE NewSession(w, None)

Authentic(s) == session[s] # None /\ HasAccess(session[s].at)

\* A request with a session that has expired or lost its access ends it.
Authenticate(s) ==
    /\ session[s] # None
    /\ Finish([Nothing EXCEPT !.ends = {s}])

Logout(s) == Authentic(s) /\ Finish([Nothing EXCEPT !.ends = {s}])

ChangePassword(s) ==
    /\ Authentic(s)
    /\ NewSession([Nothing EXCEPT !.secret = "new", !.must = FALSE, !.ends = Live],
                  session[s].at)

\* Mutant: the session refers to the membership instead of the company.
SwitchToMembership(s, c) ==
    /\ Authentic(s) /\ ~must
    /\ raised \/ c \in member \cap usable
    /\ NewSession([Nothing EXCEPT !.ends = {s}], <<c>>)

SwitchContext(s, c) ==
    /\ Authentic(s) /\ ~must
    /\ raised \/ c \in member \cap usable
    /\ NewSession([Nothing EXCEPT !.ends = {s}], c)

ClearContext(s) ==
    /\ Authentic(s) /\ ~must /\ raised
    /\ NewSession([Nothing EXCEPT !.ends = {s}], None)

-----------------------------------------------------------------------------
(* Passwords *)

NewPassword(temporary) ==
    [Nothing EXCEPT !.secret = "new", !.must = temporary, !.ends = Live]

\* ProvisioningService.set_password()
SetPassword == Finish(NewPassword(FALSE))

\* A manager of the user's company gives a temporary password.
ResetManagedUserPassword ==
    /\ member # {}
    /\ Finish(NewPassword(TRUE))

HasLoginPath == raised \/ member \cap usable # {}

Open == {t \in Tokens : token[t] = "open"}

\* The tokens before are revoked; a link that cannot be sent is revoked too.
RequestPasswordReset ==
    /\ active /\ HasLoginPath
    /\ \E t \in Tokens, sent \in BOOLEAN :
          /\ token[t] = "none"
          /\ \A r \in Requests : held[r] # None => t \notin DOMAIN held[r].write.token
          /\ Finish([Nothing EXCEPT !.token =
                [x \in Open \cup {t} |-> IF x = t /\ sent THEN "open" ELSE "revoked"]])

\* Mutant: the sessions are left alone.
ResetPasswordOnly(t) ==
    /\ token[t] = "open" /\ ~Locked(t)
    /\ IF active /\ HasLoginPath
       THEN Finish([NewPassword(FALSE) EXCEPT
               !.token = [x \in Open |-> IF x = t THEN "used" ELSE "revoked"],
               !.ends = {}, !.locks = {t}])
       ELSE Finish([Nothing EXCEPT !.token = [x \in {t} |-> "revoked"], !.locks = {t}])

ResetPassword(t) ==
    /\ token[t] = "open" /\ ~Locked(t)
    /\ IF active /\ HasLoginPath
       THEN Finish([NewPassword(FALSE) EXCEPT
               !.token = [x \in Open |-> IF x = t THEN "used" ELSE "revoked"],
               !.locks = {t}])
       ELSE Finish([Nothing EXCEPT !.token = [x \in {t} |-> "revoked"], !.locks = {t}])

-----------------------------------------------------------------------------
(* What other handlers do to the user: see module Accounts *)

\* accept_invitation() by somebody who has an account
AcceptInvitation(c) ==
    /\ active
    /\ c # None => c \in usable /\ member \subseteq {c}
    /\ Finish([NewPassword(FALSE) EXCEPT !.joins = {c} \ {None}, !.raised = (c = None)])

\* update_company_user(): the sessions end if the membership ends or its role changes.
UpdateCompanyUser(c, on, changing) ==
    LET deactivating == c \in member /\ ~on
    IN Finish([Nothing EXCEPT !.active = on,
                  !.joins = IF on THEN {c} ELSE {}, !.leaves = IF on THEN {} ELSE {c},
                  !.ends = IF deactivating \/ changing THEN Live ELSE {},
                  !.lapsed = ~on /\ c \notin member /\ ~changing])

\* update_managed_user(): the sessions end if the user is deactivated.
UpdateManagedUser(c, on) ==
    Finish([Nothing EXCEPT !.active = on,
               !.joins = IF on THEN {c} ELSE {}, !.leaves = IF on THEN {} ELSE {c},
               !.ends = IF on THEN {} ELSE Live])

UpdatePlatformAdmin(on) ==
    /\ raised
    /\ Finish([Nothing EXCEPT !.active = on, !.ends = Live])

PromotePlatformOwner == active /\ Finish([Nothing EXCEPT !.raised = TRUE, !.ends = Live])

DeactivateUser == Finish([Nothing EXCEPT !.active = FALSE, !.ends = Live])

SetCompanyStatus(c, on) ==
    Finish([Nothing EXCEPT !.opens = IF on THEN {c} ELSE {}, !.closes = IF on THEN {} ELSE {c},
               !.ends = IF on THEN {} ELSE LiveAt(c)])

-----------------------------------------------------------------------------
\* api/v1/auth.py: without a session
PublicRequests ==
    \/ Login
    \/ RequestPasswordReset
    \/ \E t \in Tokens : ResetPassword(t)
    \/ \E c \in Companies \cup {None} : AcceptInvitation(c)

\* api/v1/auth.py: with one
SessionRequests(s) ==
    \/ Authenticate(s) \/ Logout(s) \/ ChangePassword(s) \/ ClearContext(s)
    \/ \E c \in Companies : SwitchContext(s, c)

ManagersRequests ==
    \/ SetPassword \/ ResetManagedUserPassword
    \/ PromotePlatformOwner \/ DeactivateUser
    \/ \E on \in BOOLEAN :
          \/ UpdatePlatformAdmin(on)
          \/ \E c \in Companies :
                \/ \E changing \in BOOLEAN : UpdateCompanyUser(c, on, changing)
                \/ UpdateManagedUser(c, on)
                \/ SetCompanyStatus(c, on)

Next ==
    \/ PublicRequests
    \/ \E s \in Sessions : SessionRequests(s)
    \/ ManagersRequests
    \/ \E r \in Requests : Resume(r) \/ Dies(r)

\* A user whose account a manager, an invitation or the first setup has made.
Init ==
    /\ active = TRUE /\ usable \in SUBSET Companies
    /\ member \in {{}} \cup {{c} : c \in Companies}
    /\ raised \in BOOLEAN /\ (raised \/ member # {})
    /\ secret = 0 /\ newest = 0 /\ outdated \in BOOLEAN /\ must \in BOOLEAN
    /\ session = [s \in Sessions |-> None]
    /\ token = [t \in Tokens |-> "none"]
    /\ held = [r \in Requests |-> None]
    /\ uses = [t \in Tokens |-> 0] /\ doubled = {} /\ excused = {}

Spec == Init /\ [][Next]_vars

-----------------------------------------------------------------------------
(* Properties *)

TypeOK ==
    /\ active \in BOOLEAN /\ raised \in BOOLEAN
    /\ member \subseteq Companies /\ usable \subseteq Companies
    /\ secret \in 0..MaxSecrets /\ newest \in 0..MaxSecrets /\ outdated \in BOOLEAN
    /\ must \in BOOLEAN
    /\ session \in [Sessions -> [at : Companies \cup {None}, on : 0..MaxSecrets] \cup {None}]
    /\ token \in [Tokens -> {"none", "open", "used", "revoked"}]
    /\ uses \in [Tokens -> Nat] /\ doubled \subseteq Tokens /\ excused \subseteq Sessions

\* "Status-, Rollen- und Passwortaenderungen widerrufen betroffene Sitzungen
\* sofort" (docs/accountsystem-plan.md).  No row is locked for it: a session goes on
\* with a password that was replaced, or for a user who was deactivated, only
\*  - if the request that opened it and the one that replaced the password (by a new
\*    one, or by hashing the one it had read anew) or deactivated the user ran at the
\*    same time, the one committing between the reads and the commit of the other;
\*  - if the user was deactivated by update_company_user() through a membership that
\*    had ended before, which ends no session.
SessionsEnd ==
    \A s \in Live \ excused : session[s].on = secret /\ active

\* A reset token sets a password once, however many requests present it at the same
\* time, and a newer one leaves no older one open, unless the requests that sent
\* them ran at the same time (account_lifecycle.py, request_password_reset() and
\* reset_password()).
TokensOnce ==
    /\ \A t \in Tokens : uses[t] <= 1
    /\ \A t, x \in Open : t # x => {t, x} \subseteq doubled

=============================================================================
