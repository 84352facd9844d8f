------------------------------- MODULE Accounts -------------------------------
(***************************************************************************)
(* Users, companies, memberships and invitations: the platform's and the   *)
(* companies' routers, the pages an invitation opens, the first setup and  *)
(* the command line.  A handler reads its rows, decides, and commits only  *)
(* the columns that then differ (autoflush and expire_on_commit are off,   *)
(* READ COMMITTED): either nothing is committed in between, or it is held  *)
(* while other requests commit and then writes what it decided.  A person  *)
(* is one user name with one e-mail address.  The passwords and sessions   *)
(* that the same handlers write are the subject of module Sessions.        *)
(***************************************************************************)
EXTENDS Naturals

CONSTANTS
    Users, Companies, Invitations,
    Statuses,     \* the statuses of companies that are told apart
    Requests,     \* handlers that may be held between their reads and their commit
    MaxOvertaken, \* bound: commits between the reads and the commit of a handler
    None          \* no row, no company

Roles == {"company_admin", "company_user"}
Usable == {"trial", "active"}
Memberships == Companies \X Users

ASSUME AccountsAssumption ==
    /\ Statuses \subseteq {"trial", "active", "suspended", "archived"}
    /\ {"active", "suspended"} \subseteq Statuses
    /\ None \notin Companies
    /\ MaxOvertaken \in Nat

VARIABLES
    account,      \* whether a user exists, and is_active
    platform,     \* platform_role
    company,      \* the company's status, "none" before it is created
    role,         \* the role of a membership, "none" if there is no row
    works,        \* TenantMembership.is_active
    primary,      \* is_primary_admin
    letter,       \* an invitation: to whom, to which company (or the platform), as what
    accepted, revoked,   \* invitations
    setup,        \* initial_app_setup.completed_at is set
    acceptances,  \* history: how often an invitation was accepted
    held          \* what a held handler is going to commit

tables ==
    <<account, platform, company, role, works, primary, letter, accepted, revoked, setup,
      acceptances>>
vars == <<tables, held>>

Letters ==
    [to : Users, at : Companies, as : Roles] \cup [to : Users, at : {None}, as : {"admin"}]

-----------------------------------------------------------------------------
(* A commit *)

Empty == [x \in {} |-> None]
Cell(x, v) == [y \in {x} |-> v]
Over(f, g) == [x \in DOMAIN g |-> IF x \in DOMAIN f THEN f[x] ELSE g[x]]

\* The columns a transaction writes, by table, and the invitation row it locks.
Nothing ==
    [account |-> Empty, platform |-> Empty, company |-> Empty, role |-> Empty,
     works |-> Empty, primary |-> Empty, letter |-> Empty,
     accepted |-> {}, revoked |-> {}, setup |-> FALSE, locks |-> {}]

\* A membership row that is added, or written whole.
Membership(m, r, on, first) ==
    [Nothing EXCEPT !.role = Cell(m, r), !.works = Cell(m, on), !.primary = Cell(m, first)]

Partial(f, S, T) == DOMAIN f \subseteq S /\ \A x \in DOMAIN f : f[x] \in T

WriteOK(w) ==
    /\ Partial(w.account, Users, {"active", "inactive"})
    /\ Partial(w.platform, Users, {"admin", "owner"})
    /\ Partial(w.company, Companies, Statuses)
    /\ Partial(w.role, Memberships, Roles)
    /\ Partial(w.works, Memberships, BOOLEAN)
    /\ Partial(w.primary, Memberships, BOOLEAN)
    /\ Partial(w.letter, Invitations, Letters)
    /\ w.accepted \subseteq Invitations /\ w.revoked \subseteq Invitations
    /\ w.setup \in BOOLEAN

\* Partial unique indexes: one platform owner, one active primary administrator
\* of a company.
Unique(p, w, first) ==
    /\ \A u, v \in Users : p[u] = "owner" /\ p[v] = "owner" => u = v
    /\ \A c \in Companies : \A u, v \in Users :
          /\ w[c, u] /\ first[c, u]
          /\ w[c, v] /\ first[c, v]
          => u = v

Valid(w) == Unique(Over(w.platform, platform), Over(w.works, works), Over(w.primary, primary))

Stores(w) ==
    /\ account' = Over(w.account, account)
    /\ platform' = Over(w.platform, platform)
    /\ company' = Over(w.company, company)
    /\ role' = Over(w.role, role)
    /\ works' = Over(w.works, works)
    /\ primary' = Over(w.primary, primary)
    /\ letter' = Over(w.letter, letter)
    /\ accepted' = accepted \cup w.accepted
    /\ revoked' = revoked \cup w.revoked
    /\ setup' = (setup \/ w.setup)
    /\ acceptances' = [i \in Invitations |->
          IF i \in w.accepted THEN acceptances[i] + 1 ELSE acceptances[i]]

\* What of a decision differs from the rows as they were read.
Differs(f, g) == [x \in {y \in DOMAIN f : f[y] # g[y]} |-> f[x]]
Changed(w) ==
    [w EXCEPT !.account = Differs(@, account), !.platform = Differs(@, platform),
              !.company = Differs(@, company), !.role = Differs(@, role),
              !.works = Differs(@, works), !.primary = Differs(@, primary)]

\* The rows a decision adds: another request may add them first.
Adds(w) ==
    [users |-> {u \in DOMAIN w.account : account[u] = "none"},
     companies |-> {c \in DOMAIN w.company : company[c] = "none"},
     members |-> {m \in DOMAIN w.role : role[m] = "none"}]
Added(rows) ==
    \/ \E u \in rows.users : account[u] # "none"
    \/ \E c \in rows.companies : company[c] # "none"
    \/ \E m \in rows.members : role[m] # "none"

\* Mutant: the invitation is read without FOR UPDATE.
LockedNever(i) == FALSE

\* accept_invitation() keeps its invitation under FOR UPDATE until it commits.
Locked(i) == \E r \in Requests : held[r] # None /\ i \in held[r].write.locks
Waits(w) == \E i \in w.accepted \cup w.revoked : Locked(i)

\* The handlers still held have read rows of before this commit.
Overtakes(h) ==
    [r \in Requests |-> IF h[r] = None THEN None ELSE [h[r] EXCEPT !.overtaken = @ + 1]]
MayOvertake(h) == \A r \in Requests : h[r] # None => h[r].overtaken < MaxOvertaken

\* A handler commits what it decided at once, or is held.
Finish(w) ==
    \/ /\ Valid(w) /\ ~Waits(w) /\ MayOvertake(held)
       /\ Stores(w) /\ held' = Overtakes(held)
    \/ \E r \in Requests :
          /\ held[r] = None
          /\ held' = [held EXCEPT ![r] =
                        [write |-> Changed(w), adds |-> Adds(w), overtaken |-> 0]]
          /\ UNCHANGED tables

\* A held handler commits; a unique constraint that fails rolls it back.
Resume(r) ==
    /\ held[r] # None
    /\ LET w == held[r].write
           others == [held EXCEPT ![r] = None]
       IN \/ /\ Valid(w) /\ ~Added(held[r].adds) /\ MayOvertake(others)
             /\ ~ \E i \in w.revoked \ w.locks : Locked(i)
             /\ Stores(w) /\ held' = Overtakes(others)
          \/ /\ ~(Valid(w) /\ ~Added(held[r].adds))
             /\ held' = others
             /\ UNCHANGED tables

\* The process dies or the connection is lost: the transaction is rolled back.
Dies(r) ==
    /\ held[r] # None
    /\ held' = [held EXCEPT ![r] = None]
    /\ UNCHANGED tables

-----------------------------------------------------------------------------
(* Who may ask for what *)

PlatformActor(a) == account[a] = "active" /\ platform[a] \in {"admin", "owner"}
OwnerActor(a) == account[a] = "active" /\ platform[a] = "owner"

\* An administrator of a company that is not suspended.
CompanyAdmin(a, c) ==
    /\ account[a] = "active" /\ company[c] \in Usable
    /\ works[c, a] /\ role[c, a] = "company_admin"

\* _require_account_manager()
AccountManager(a, c) == CompanyAdmin(a, c) \/ PlatformActor(a)

\* Only the platform and the primary administrator change roles.
ChangesRoles(a, c) == platform[a] # "none" \/ primary[c, a]

-----------------------------------------------------------------------------
(* AccountManagementService *)

\* _create_direct_company_user()
Direct(c, u, r, first) ==
    [Membership(<<c, u>>, r, TRUE, first) EXCEPT !.account = Cell(u, "active")]

CreateCompanyUser(c, u, r) ==
    /\ account[u] = "none"
    /\ Finish(Direct(c, u, r, FALSE))

\* _issue_invitation(): the invitations to the same person that it replaces are
\* revoked; an invitation that cannot be delivered is rolled back.
Invitable(u, at) ==
    /\ account[u] # "inactive"
    /\ IF at = None THEN platform[u] = "none" ELSE \A c \in Companies : ~works[c, u]

Pending(u, at) ==
    {i \in Invitations : /\ letter[i] # None /\ letter[i].to = u /\ letter[i].at = at
                         /\ i \notin accepted \cup revoked}

Invite(u, at, as, w) ==
    /\ Invitable(u, at)
    /\ \E i \in Invitations :
          /\ letter[i] = None
          /\ \A r \in Requests : held[r] # None => i \notin DOMAIN held[r].write.letter
          /\ Finish([w EXCEPT !.letter = Cell(i, [to |-> u, at |-> at, as |-> as]),
                              !.revoked = Pending(u, at)])

IssueInvitation(u, at, as) == Invite(u, at, as, Nothing)

\* The first administrator gets a temporary password, or an invitation.
CreateCompany(c, u, s) ==
    /\ company[c] = "none"
    /\ \/ /\ account[u] = "none"
          /\ Finish([Direct(c, u, "company_admin", TRUE) EXCEPT !.company = Cell(c, s)])
       \/ Invite(u, c, "company_admin", [Nothing EXCEPT !.company = Cell(c, s)])

RevokeInvitation(at) ==
    \E i \in Invitations :
       /\ letter[i] # None /\ letter[i].at = at
       /\ i \notin accepted \cup revoked
       /\ Finish([Nothing EXCEPT !.revoked = {i}])

SetCompanyStatus(c, target) ==
    /\ company[c] # "none"
    /\ target = "active" =>
          \E u \in Users : /\ primary[c, u] /\ works[c, u] /\ account[u] = "active"
                           /\ role[c, u] = "company_admin"
    /\ Finish([Nothing EXCEPT !.company = Cell(c, target)])

AnotherActiveAdmin(c, u) ==
    \E v \in Users \ {u} : role[c, v] = "company_admin" /\ works[c, v]

Activity(on) == IF on THEN "active" ELSE "inactive"

\* Mutant: the primary administrator is not protected.
UpdateCompanyUserAny(a, c, u, r, on) ==
    /\ role[c, u] # "none" /\ platform[u] # "owner"
    /\ r # role[c, u] => ChangesRoles(a, c)
    /\ Finish([Membership(<<c, u>>, r, on, primary[c, u])
                  EXCEPT !.account = Cell(u, Activity(on))])

UpdateCompanyUser(a, c, u, r, on) ==
    LET deactivating == works[c, u] /\ ~on
        weaker == deactivating \/ r # "company_admin"
    IN /\ role[c, u] # "none" /\ platform[u] # "owner"
       /\ ~(u = a /\ deactivating)
       /\ ~(primary[c, u] /\ weaker)
       /\ r # role[c, u] => ChangesRoles(a, c)
       /\ weaker /\ role[c, u] = "company_admin" => AnotherActiveAdmin(c, u)
       /\ Finish([Membership(<<c, u>>, r, on, primary[c, u])
                     EXCEPT !.account = Cell(u, Activity(on))])

TransferPrimaryAdmin(a, c, u) ==
    LET current == {v \in Users : works[c, v] /\ primary[c, v]}
    IN /\ ChangesRoles(a, c)
       /\ works[c, u] /\ role[c, u] = "company_admin"
       /\ u \notin current
       /\ Finish([Nothing EXCEPT !.primary =
                     [m \in {<<c, v>> : v \in current \cup {u}} |-> m[2] = u]])

CreatePlatformAdmin(u) ==
    /\ account[u] = "none"
    /\ Finish([Nothing EXCEPT !.account = Cell(u, "active"), !.platform = Cell(u, "admin")])

UpdatePlatformAdmin(a, u, on) ==
    /\ platform[u] = "admin" /\ u # a
    /\ Finish([Nothing EXCEPT !.account = Cell(u, Activity(on))])

-----------------------------------------------------------------------------
(* The users of a company as api/v1/auth.py still changes them *)

UpdateManagedUser(a, c, u, r, on) ==
    /\ role[c, u] # "none"
    /\ ~primary[c, u] /\ u # a
    /\ r # role[c, u] => ChangesRoles(a, c)
    /\ Finish([Membership(<<c, u>>, r, on, primary[c, u])
                  EXCEPT !.account = Cell(u, Activity(on))])

-----------------------------------------------------------------------------
(* AccountLifecycleService *)

\* The membership an invitation to a company stands for: an existing row takes
\* the invitation's role and keeps its is_primary_admin.
Joins(c, u, r) ==
    LET m == <<c, u>>
    IN IF role[m] = "none"
       THEN Membership(m, r, TRUE, /\ r = "company_admin"
                                   /\ ~ \E v \in Users : works[c, v] /\ primary[c, v])
       ELSE Membership(m, r, TRUE, primary[m])

\* Mutant: the other memberships of the person are not looked at.
AcceptInvitationAnyway(i) ==
    LET u == letter[i].to
        c == letter[i].at
        grant == IF c = None THEN [Nothing EXCEPT !.platform = Cell(u, "admin")]
                 ELSE Joins(c, u, letter[i].as)
    IN /\ letter[i] # None /\ ~Locked(i) /\ i \notin accepted \cup revoked
       /\ account[u] # "inactive"
       /\ c # None => company[c] \in Usable
       /\ Finish([grant EXCEPT !.account = Cell(u, "active"), !.accepted = {i}, !.locks = {i}])

\* An invitation that has expired is one that nobody accepts any more.
AcceptInvitation(i) ==
    LET u == letter[i].to
        c == letter[i].at
        grant == IF c = None THEN [Nothing EXCEPT !.platform = Cell(u, "admin")]
                 ELSE Joins(c, u, letter[i].as)
    IN /\ letter[i] # None /\ ~Locked(i)
       /\ i \notin accepted \cup revoked
       /\ account[u] # "inactive"
       /\ c # None => /\ company[c] \in Usable
                      /\ \A d \in Companies \ {c} : ~works[d, u]
       /\ Finish([grant EXCEPT !.account = Cell(u, "active"), !.accepted = {i}, !.locks = {i}])

-----------------------------------------------------------------------------
(* InitialSetupService, ProvisioningService *)

\* provision_tenant(): a company with its primary administrator, who may become
\* the platform's owner; it repeats what is there already.
ProvisionTenant(c, u, owner) ==
    LET m == <<c, u>>
    IN /\ company[c] \in {"none", "active"}
       /\ account[u] # "inactive"
       /\ IF role[m] = "none"
          THEN \A d \in Companies \ {c} : ~works[d, u]
          ELSE role[m] = "company_admin" /\ works[m] /\ primary[m]
       /\ owner => /\ platform[u] # "admin"
                   /\ \A v \in Users \ {u} : platform[v] # "owner"
       /\ Finish([Direct(c, u, "company_admin", TRUE)
                     EXCEPT !.company = Cell(c, "active"), !.setup = TRUE,
                            !.platform = IF owner THEN Cell(u, "owner") ELSE Empty])

\* The claim of the setup row waits for one that is held, then finds it taken.
CompleteInitialSetup(c, u) ==
    /\ ~setup /\ \A r \in Requests : held[r] # None => ~held[r].write.setup
    /\ company[c] = "none"
    /\ ProvisionTenant(c, u, TRUE)

PromotePlatformOwner(u) ==
    /\ account[u] = "active"
    /\ Finish([Nothing EXCEPT !.platform =
          [v \in {u} \cup {x \in Users : platform[x] = "owner"} |->
              IF v = u THEN "owner" ELSE "admin"]])

DeactivateUser(u) ==
    /\ account[u] # "none"
    /\ Finish([Nothing EXCEPT !.account = Cell(u, "inactive")])

\* Mutant: the status of a user, not of a company.
DeactivateTenantAsUser(c) ==
    /\ company[c] # "none"
    /\ Finish([Nothing EXCEPT !.company = Cell(c, "inactive")])

DeactivateTenant(c) ==
    /\ company[c] # "none"
    /\ Finish([Nothing EXCEPT !.company = Cell(c, "suspended")])

-----------------------------------------------------------------------------
(* The routers *)

\* api/v1/platform.py: companies, their users and invitations, for the platform
PlatformRouter(a) ==
    /\ PlatformActor(a)
    /\ \E c \in Companies :
          \/ \E u \in Users, s \in Statuses \cap Usable : CreateCompany(c, u, s)
          \/ \E target \in Statuses : SetCompanyStatus(c, target)
          \/ \E u \in Users, r \in Roles : company[c] # "none" /\ CreateCompanyUser(c, u, r)

CompanyOperations(a, c) ==
    /\ company[c] # "none"
    /\ \/ \E u \in Users, r \in Roles, on \in BOOLEAN : UpdateCompanyUser(a, c, u, r, on)
       \/ \E u \in Users : TransferPrimaryAdmin(a, c, u)
       \/ \E u \in Users, r \in Roles : IssueInvitation(u, c, r)
       \/ RevokeInvitation(c)

\* api/v1/platform.py: the users of any company, for the platform
CompanyUsersRouter(a, c) == PlatformActor(a) /\ CompanyOperations(a, c)

\* api/v1/company.py: the users of the own company
OwnCompanyRouter(a, c) == CompanyAdmin(a, c) /\ CompanyOperations(a, c)

\* api/v1/platform.py: the platform's administrators, for the owner
AdminsRouter(a) ==
    /\ OwnerActor(a)
    /\ \E u \in Users :
          \/ CreatePlatformAdmin(u)
          \/ IssueInvitation(u, None, "admin")
          \/ \E on \in BOOLEAN : UpdatePlatformAdmin(a, u, on)

\* api/v1/auth.py: the users of a company, as before
ManagedUsers(a, c) ==
    /\ company[c] # "none" /\ AccountManager(a, c)
    /\ \E u \in Users, r \in Roles :
          \/ /\ r = "company_admin" => ChangesRoles(a, c)
             /\ CreateCompanyUser(c, u, r)
          \/ \E on \in BOOLEAN : UpdateManagedUser(a, c, u, r, on)

\* cli.py
CommandLine ==
    \E u \in Users :
       \/ \E c \in Companies : ProvisionTenant(c, u, FALSE) \/ DeactivateTenant(c)
       \/ CreatePlatformAdmin(u)
       \/ PromotePlatformOwner(u)
       \/ DeactivateUser(u)

Next ==
    \/ \E a \in Users : PlatformRouter(a) \/ AdminsRouter(a)
    \/ \E a \in Users, c \in Companies :
          CompanyUsersRouter(a, c) \/ OwnCompanyRouter(a, c) \/ ManagedUsers(a, c)
    \/ \E i \in Invitations : AcceptInvitation(i)
    \/ \E c \in Companies, u \in Users : CompleteInitialSetup(c, u)
    \/ CommandLine
    \/ \E r \in Requests : Resume(r) \/ Dies(r)

Init ==
    /\ account = [u \in Users |-> "none"] /\ platform = [u \in Users |-> "none"]
    /\ company = [c \in Companies |-> "none"]
    /\ role = [m \in Memberships |-> "none"]
    /\ works = [m \in Memberships |-> FALSE] /\ primary = [m \in Memberships |-> FALSE]
    /\ letter = [i \in Invitations |-> None]
    /\ accepted = {} /\ revoked = {} /\ setup = FALSE
    /\ acceptances = [i \in Invitations |-> 0]
    /\ held = [r \in Requests |-> None]

Spec == Init /\ [][Next]_vars

-----------------------------------------------------------------------------
(* Properties *)

TypeOK ==
    /\ account \in [Users -> {"none", "active", "inactive"}]
    /\ platform \in [Users -> {"none", "admin", "owner"}]
    /\ company \in [Companies -> {"none"} \cup Statuses]
    /\ role \in [Memberships -> {"none"} \cup Roles]
    /\ works \in [Memberships -> BOOLEAN]
    /\ primary \in [Memberships -> BOOLEAN]
    /\ letter \in [Invitations -> Letters \cup {None}]
    /\ accepted \subseteq Invitations /\ revoked \subseteq Invitations
    /\ setup \in BOOLEAN /\ acceptances \in [Invitations -> Nat]
    /\ \A r \in Requests : held[r] # None =>
          WriteOK(held[r].write) /\ held[r].overtaken \in 0..MaxOvertaken

\* A step that commits what was decided on rows that others have written since.
Overtaken == \E r \in Requests : held[r] # None /\ held[r].overtaken > 0 /\ held'[r] = None

\* The active primary administrator of a company.
Leads(c, u) == primary[c, u] /\ works[c, u] /\ role[c, u] = "company_admin"
Led(c) == \E u \in Users : Leads(c, u)
Owned == \E u \in Users : platform[u] = "owner"
Several(u) == \E c, d \in Companies : c # d /\ works[c, u] /\ works[d, u]

AcceptsOnce ==
    \A i \in Invitations : acceptances'[i] # acceptances[i] =>
       LET u == letter[i].to
           c == letter[i].at
       IN /\ acceptances[i] = 0 /\ i \notin revoked
          /\ \/ Overtaken
             \/ c = None /\ platform'[u] = "admin"
             \/ c # None /\ works'[c, u] /\ role'[c, u] = letter[i].as

KeepsPrimary ==
    \A c \in Companies : Led(c) /\ ~Led(c)' =>
       \/ Overtaken
       \/ \E i \in accepted' \ accepted :
             letter[i].at = c /\ letter[i].as = "company_user" /\ Leads(c, letter[i].to)

KeepsOwner ==
    Owned /\ ~Owned' =>
       \E i \in accepted' \ accepted : letter[i].at = None /\ platform[letter[i].to] = "owner"

JoinsOne ==
    \A u \in Users : ~Several(u) /\ Several(u)' =>
       \/ Overtaken
       \/ /\ accepted' = accepted /\ setup' = setup
          /\ \E c \in Companies : role[c, u] # "none" /\ ~works[c, u] /\ works'[c, u]

\* An invitation is accepted once, never after it was revoked or replaced by a
\* newer one, whatever requests revoke, replace and accept it at the same time,
\* and gives what it offers unless the acceptance was overtaken
\* (account_lifecycle.py, accept_invitation()).
InvitationsOnce == [][AcceptsOnce]_vars

\* A company that has an active primary administrator keeps one (the guards of
\* update_company_user(), transfer_primary_admin() and the older endpoints)
\* unless a handler decided on rows that have changed since, or the primary
\* administrator accepts an older invitation to a lesser role.
PrimaryProtected == [][KeepsPrimary]_vars

\* "Owner ist ueber normale APIs unveraenderlich" (docs/accountsystem-progress.md):
\* once there is an owner only the acceptance of an older invitation to the
\* platform by that owner can leave the platform without one.
OwnerStays == [][KeepsOwner]_vars

\* Both: neither a company nor the platform loses the one who leads it.
LeadersStay == PrimaryProtected /\ OwnerStays

\* Nobody comes to work for two companies by an invitation or by provisioning:
\* only the reactivation of an old membership, which no handler compares with
\* the others, or a handler that was overtaken makes a second one active.
OneCompany == [][JoinsOne]_vars

\* "DB- und Service-Invarianten schuetzen ... den primaeren Administrator ...":
\* a company that has an active primary administrator keeps one.
PrimaryStays == [][\A c \in Companies : Led(c) => Led(c)']_vars

=============================================================================
