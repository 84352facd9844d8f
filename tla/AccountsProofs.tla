---------------------------- MODULE AccountsProofs ----------------------------
(***************************************************************************)
(* What holds of users, companies and invitations for any number of them   *)
(* and of handlers that overtake one another.                              *)
(*                                                                         *)
(* As in module SessionsProofs, a handler decides on a commit that is      *)
(* right for the rows it has read (Right) and carries what stays true of   *)
(* it while it waits (Lasting).                                            *)
(***************************************************************************)
EXTENDS Accounts, TLAPS

Partials(S, T) == UNION {[D -> T] : D \in SUBSET S}

Writes ==
    [account : Partials(Users, {"active", "inactive"}),
     platform : Partials(Users, {"admin", "owner"}),
     company : Partials(Companies, Statuses),
     role : Partials(Memberships, Roles),
     works : Partials(Memberships, BOOLEAN), primary : Partials(Memberships, BOOLEAN),
     letter : Partials(Invitations, Letters),
     accepted : SUBSET Invitations, revoked : SUBSET Invitations,
     setup : BOOLEAN, locks : SUBSET Invitations]

Additions ==
    [users : SUBSET Users, companies : SUBSET Companies, members : SUBSET Memberships]

-----------------------------------------------------------------------------
(* Columns *)

LEMMA EmptyPartial ==
  ASSUME NEW S, NEW T PROVE Empty \in Partials(S, T) /\ DOMAIN Empty = {}
<1>1. Empty \in [{} -> T]
  BY DEF Empty
<1> QED
  BY <1>1 DEF Partials

LEMMA CellPartial ==
  ASSUME NEW S, NEW T, NEW x \in S, NEW v \in T
  PROVE  Cell(x, v) \in Partials(S, T) /\ DOMAIN Cell(x, v) = {x} /\ Cell(x, v)[x] = v
<1>1. Cell(x, v) \in [{x} -> T]
  BY DEF Cell
<1> QED
  BY <1>1 DEF Partials, Cell

LEMMA PartialDomain ==
  ASSUME NEW S, NEW T, NEW f \in Partials(S, T)
  PROVE  DOMAIN f \subseteq S /\ (\A x \in DOMAIN f : f[x] \in T) /\ Partial(f, S, T)
  BY DEF Partials, Partial

LEMMA OverType ==
  ASSUME NEW S, NEW T, NEW f \in Partials(S, T), NEW U, T \subseteq U, NEW g \in [S -> U]
  PROVE  /\ Over(f, g) \in [S -> U]
         /\ \A x \in S : Over(f, g)[x] = IF x \in DOMAIN f THEN f[x] ELSE g[x]
  BY PartialDomain DEF Over

\* A column written as it is changes nothing.
LEMMA DiffersPartial ==
  ASSUME NEW S, NEW T, NEW f \in Partials(S, T), NEW g
  PROVE  Differs(f, g) \in Partials(S, T) /\ Over(Differs(f, g), g) = Over(f, g)
<1> DEFINE D == {x \in DOMAIN f : f[x] # g[x]}
<1>1. DOMAIN f \subseteq S /\ \A x \in DOMAIN f : f[x] \in T
  BY PartialDomain
<1>2. Differs(f, g) \in [D -> T] /\ D \in SUBSET S
  BY <1>1 DEF Differs
<1>3. Differs(f, g) \in Partials(S, T)
  BY <1>2 DEF Partials
<1>4. /\ DOMAIN Differs(f, g) = D
      /\ \A x \in D : Differs(f, g)[x] = f[x]
  BY DEF Differs
<1>5. Over(Differs(f, g), g) = Over(f, g)
  BY <1>4 DEF Over
<1> QED
  BY <1>3, <1>5

-----------------------------------------------------------------------------
(* The invariant *)

\* The tables as they are after a commit.
LeadsAfter(w, c, u) ==
    /\ Over(w.primary, primary)[c, u] /\ Over(w.works, works)[c, u]
    /\ Over(w.role, role)[c, u] = "company_admin"
SeveralAfter(w, u) ==
    \E c, d \in Companies :
       c # d /\ Over(w.works, works)[c, u] /\ Over(w.works, works)[d, u]

Gives(w, i) ==
    LET u == letter[i].to
        c == letter[i].at
    IN \/ c = None /\ Over(w.platform, platform)[u] = "admin"
       \/ /\ c # None /\ Over(w.works, works)[c, u]
          /\ Over(w.role, role)[c, u] = letter[i].as

Right(w) ==
    /\ \A i \in w.accepted : Gives(w, i)
    /\ \A c \in Companies : Led(c) =>
          \/ \E u \in Users : LeadsAfter(w, c, u)
          \/ \E i \in w.accepted :
                letter[i].at = c /\ letter[i].as = "company_user" /\ Leads(c, letter[i].to)
    /\ \A u \in Users : ~Several(u) /\ SeveralAfter(w, u) =>
          /\ w.accepted = {} /\ ~w.setup
          /\ \E c \in Companies :
                role[c, u] # "none" /\ ~works[c, u] /\ Over(w.works, works)[c, u]

\* Nobody loses the platform's ownership but to a new owner, by being added, or by
\* an invitation.
Demoted(w, adds, u) ==
    \/ \E v \in DOMAIN w.platform : w.platform[v] = "owner"
    \/ u \in adds.users
    \/ \E i \in w.accepted : letter[i].at = None /\ letter[i].to = u

Lasting(w, adds) ==
    /\ w \in Writes /\ adds \in Additions
    /\ \A m \in DOMAIN w.role : m[2] \in DOMAIN w.account \/ account[m[2]] # "none"
    /\ \A m \in DOMAIN w.works : m \in DOMAIN w.role \/ role[m] # "none"
    /\ \A u \in DOMAIN w.platform : u \in DOMAIN w.account \/ account[u] # "none"
    /\ \A i \in DOMAIN w.letter : letter[i] = None
    /\ w.accepted \subseteq w.locks
    /\ \A i \in w.locks : i \notin accepted \cup revoked /\ letter[i] # None
    /\ \A u \in DOMAIN w.platform : w.platform[u] = "admin" => Demoted(w, adds, u)

Decisions == [write : Writes, adds : Additions, overtaken : 0..MaxOvertaken]

HeldInv ==
    /\ held \in [Requests -> Decisions \cup {None}]
    /\ \A r \in Requests : held[r] # None =>
          /\ Lasting(held[r].write, held[r].adds)
          /\ held[r].overtaken = 0 => Right(held[r].write)
    /\ \A r, q \in Requests : r # q /\ held[r] # None /\ held[q] # None =>
          /\ held[r].write.locks \cap held[q].write.locks = {}
          /\ DOMAIN held[r].write.letter \cap DOMAIN held[q].write.letter = {}

Tables ==
    /\ account \in [Users -> {"none", "active", "inactive"}]
    /\ platform \in [Users -> {"none", "admin", "owner"}]
    /\ company \in [Companies -> {"none"} \cup Statuses]
    /\ role \in [Memberships -> {"none"} \cup Roles]
    /\ works \in [Memberships -> BOOLEAN]
    /\ primary \in [Memberships -> BOOLEAN]
    /\ letter \in [Invitations -> Letters \cup {None}]
    /\ accepted \subseteq Invitations /\ revoked \subseteq Invitations
    /\ setup \in BOOLEAN
    /\ acceptances \in [Invitations -> Nat]
    /\ \A i \in Invitations : i \notin accepted => acceptances[i] = 0

\* Who works has a membership, who has one or a platform role has an account.
Consistent ==
    /\ \A m \in Memberships : works[m] => role[m] # "none"
    /\ \A m \in Memberships : role[m] # "none" => account[m[2]] # "none"
    /\ \A u \in Users : platform[u] # "none" => account[u] # "none"
    /\ Unique(platform, works, primary)

IInv == Tables /\ Consistent /\ HeldInv

\* What a handler has when it finishes: nobody else has the invitations it takes,
\* and only the owner there is gives way to a new one.
Decided(w) ==
    /\ Right(w) /\ Lasting(w, Adds(w))
    /\ \A i \in w.locks : ~Locked(i)
    /\ \A r \in Requests : held[r] # None =>
          DOMAIN held[r].write.letter \cap DOMAIN w.letter = {}
    /\ \A u \in DOMAIN w.platform :
          w.platform[u] = "admin" /\ (\E v \in DOMAIN w.platform : w.platform[v] = "owner")
          => platform[u] = "owner"

Good == AcceptsOnce /\ KeepsPrimary /\ KeepsOwner /\ JoinsOne

LEMMA TypeFollows == IInv => TypeOK
<1> SUFFICES ASSUME IInv PROVE TypeOK
  OBVIOUS
<1>1. ASSUME NEW r \in Requests, held[r] # None
      PROVE  WriteOK(held[r].write) /\ held[r].overtaken \in 0..MaxOvertaken
  <2>1. held[r].write \in Writes /\ held[r].overtaken \in 0..MaxOvertaken
    BY <1>1 DEF IInv, HeldInv, Decisions
  <2> DEFINE w == held[r].write
  <2>2. PICK v : v = w
    OBVIOUS
  <2>3. WriteOK(v)
    BY <2>1, <2>2, PartialDomain DEF WriteOK, Writes
  <2> QED
    BY <2>1, <2>2, <2>3
<1> QED
  BY <1>1 DEF IInv, TypeOK, Tables

-----------------------------------------------------------------------------
(* A commit *)

LEMMA StoresTables ==
  ASSUME IInv, NEW w, NEW adds, Lasting(w, adds), Stores(w)
  PROVE  /\ Tables'
         /\ \A u \in Users : account'[u] = IF u \in DOMAIN w.account THEN w.account[u] ELSE account[u]
         /\ \A u \in Users : platform'[u] = IF u \in DOMAIN w.platform THEN w.platform[u] ELSE platform[u]
         /\ \A c \in Companies : company'[c] = IF c \in DOMAIN w.company THEN w.company[c] ELSE company[c]
         /\ \A m \in Memberships : role'[m] = IF m \in DOMAIN w.role THEN w.role[m] ELSE role[m]
         /\ \A m \in Memberships : works'[m] = IF m \in DOMAIN w.works THEN w.works[m] ELSE works[m]
         /\ \A m \in Memberships : primary'[m] = IF m \in DOMAIN w.primary THEN w.primary[m] ELSE primary[m]
         /\ \A i \in Invitations : letter'[i] = IF i \in DOMAIN w.letter THEN w.letter[i] ELSE letter[i]
<1>1. /\ w.account \in Partials(Users, {"active", "inactive"})
      /\ w.platform \in Partials(Users, {"admin", "owner"})
      /\ w.company \in Partials(Companies, Statuses)
      /\ w.role \in Partials(Memberships, Roles)
      /\ w.works \in Partials(Memberships, BOOLEAN)
      /\ w.primary \in Partials(Memberships, BOOLEAN)
      /\ w.letter \in Partials(Invitations, Letters)
      /\ w.accepted \subseteq Invitations /\ w.revoked \subseteq Invitations
      /\ w.setup \in BOOLEAN
  BY DEF Lasting, Writes
<1>b. /\ account \in [Users -> {"none", "active", "inactive"}]
      /\ platform \in [Users -> {"none", "admin", "owner"}]
      /\ company \in [Companies -> {"none"} \cup Statuses]
      /\ role \in [Memberships -> {"none"} \cup Roles]
      /\ letter \in [Invitations -> Letters \cup {None}]
      /\ account' = Over(w.account, account) /\ platform' = Over(w.platform, platform)
      /\ company' = Over(w.company, company) /\ role' = Over(w.role, role)
      /\ letter' = Over(w.letter, letter)
      /\ works \in [Memberships -> BOOLEAN] /\ primary \in [Memberships -> BOOLEAN]
      /\ works' = Over(w.works, works) /\ primary' = Over(w.primary, primary)
  BY DEF IInv, Tables, Stores
<1>2. /\ account' \in [Users -> {"none", "active", "inactive"}]
      /\ \A u \in Users : account'[u] = IF u \in DOMAIN w.account THEN w.account[u] ELSE account[u]
  <2> DEFINE f == w.account
             g == account
             T == {"active", "inactive"}
             U == {"none", "active", "inactive"}
  <2>1. f \in Partials(Users, T) /\ g \in [Users -> U] /\ T \subseteq U
    BY <1>1, <1>b
  <2> HIDE DEF f, g, T, U
  <2>2. /\ Over(f, g) \in [Users -> U]
        /\ \A u \in Users : Over(f, g)[u] = IF u \in DOMAIN f THEN f[u] ELSE g[u]
    BY <2>1, OverType
  <2> QED
    BY <2>2, <1>b DEF f, g, U
<1>3. /\ platform' \in [Users -> {"none", "admin", "owner"}]
      /\ \A u \in Users : platform'[u] = IF u \in DOMAIN w.platform THEN w.platform[u] ELSE platform[u]
  <2> DEFINE f == w.platform
             g == platform
             T == {"admin", "owner"}
             U == {"none", "admin", "owner"}
  <2>1. f \in Partials(Users, T) /\ g \in [Users -> U] /\ T \subseteq U
    BY <1>1, <1>b
  <2> HIDE DEF f, g, T, U
  <2>2. /\ Over(f, g) \in [Users -> U]
        /\ \A u \in Users : Over(f, g)[u] = IF u \in DOMAIN f THEN f[u] ELSE g[u]
    BY <2>1, OverType
  <2> QED
    BY <2>2, <1>b DEF f, g, U
<1>4. /\ company' \in [Companies -> {"none"} \cup Statuses]
      /\ \A c \in Companies : company'[c] = IF c \in DOMAIN w.company THEN w.company[c] ELSE company[c]
  <2> DEFINE f == w.company
             g == company
             T == Statuses
             U == {"none"} \cup Statuses
  <2>1. f \in Partials(Companies, T) /\ g \in [Companies -> U] /\ T \subseteq U
    BY <1>1, <1>b
  <2> HIDE DEF f, g, T, U
  <2>2. /\ Over(f, g) \in [Companies -> U]
        /\ \A c \in Companies : Over(f, g)[c] = IF c \in DOMAIN f THEN f[c] ELSE g[c]
    BY <2>1, OverType
  <2> QED
    BY <2>2, <1>b DEF f, g, U
<1>5. /\ role' \in [Memberships -> {"none"} \cup Roles]
      /\ \A m \in Memberships : role'[m] = IF m \in DOMAIN w.role THEN w.role[m] ELSE role[m]
  <2> DEFINE f == w.role
             g == role
             T == Roles
             U == {"none"} \cup Roles
  <2>1. f \in Partials(Memberships, T) /\ g \in [Memberships -> U] /\ T \subseteq U
    BY <1>1, <1>b
  <2> HIDE DEF f, g, T, U
  <2>2. /\ Over(f, g) \in [Memberships -> U]
        /\ \A m \in Memberships : Over(f, g)[m] = IF m \in DOMAIN f THEN f[m] ELSE g[m]
    BY <2>1, OverType
  <2> QED
    BY <2>2, <1>b DEF f, g, U
<1>6. /\ works' \in [Memberships -> BOOLEAN]
      /\ \A m \in Memberships : works'[m] = IF m \in DOMAIN w.works THEN w.works[m] ELSE works[m]
  <2> DEFINE f == w.works
             g == works
             T == BOOLEAN
             U == BOOLEAN
  <2>1. f \in Partials(Memberships, T) /\ g \in [Memberships -> U] /\ T \subseteq U
    BY <1>1, <1>b
  <2> HIDE DEF f, g, T, U
  <2>2. /\ Over(f, g) \in [Memberships -> U]
        /\ \A m \in Memberships : Over(f, g)[m] = IF m \in DOMAIN f THEN f[m] ELSE g[m]
    BY <2>1, OverType
  <2> QED
    BY <2>2, <1>b DEF f, g, U
<1>7. /\ primary' \in [Memberships -> BOOLEAN]
      /\ \A m \in Memberships : primary'[m] = IF m \in DOMAIN w.primary THEN w.primary[m] ELSE primary[m]
  <2> DEFINE f == w.primary
             g == primary
             T == BOOLEAN
             U == BOOLEAN
  <2>1. f \in Partials(Memberships, T) /\ g \in [Memberships -> U] /\ T \subseteq U
    BY <1>1, <1>b
  <2> HIDE DEF f, g, T, U
  <2>2. /\ Over(f, g) \in [Memberships -> U]
        /\ \A m \in Memberships : Over(f, g)[m] = IF m \in DOMAIN f THEN f[m] ELSE g[m]
    BY <2>1, OverType
  <2> QED
    BY <2>2, <1>b DEF f, g, U
<1>8. /\ letter' \in [Invitations -> Letters \cup {None}]
      /\ \A i \in Invitations : letter'[i] = IF i \in DOMAIN w.letter THEN w.letter[i] ELSE letter[i]
  <2> DEFINE f == w.letter
             g == letter
             T == Letters
             U == Letters \cup {None}
  <2>1. f \in Partials(Invitations, T) /\ g \in [Invitations -> U] /\ T \subseteq U
    BY <1>1, <1>b
  <2> HIDE DEF f, g, T, U
  <2>2. /\ Over(f, g) \in [Invitations -> U]
        /\ \A i \in Invitations : Over(f, g)[i] = IF i \in DOMAIN f THEN f[i] ELSE g[i]
    BY <2>1, OverType
  <2> QED
    BY <2>2, <1>b DEF f, g, U
<1>9. accepted' \subseteq Invitations /\ revoked' \subseteq Invitations /\ setup' \in BOOLEAN
  BY <1>1 DEF IInv, Tables, Stores
<1>10. /\ acceptances' \in [Invitations -> Nat]
       /\ \A i \in Invitations : i \notin accepted' => acceptances'[i] = 0
  BY DEF IInv, Tables, Stores
<1> QED
  BY <1>2, <1>3, <1>4, <1>5, <1>6, <1>7, <1>8, <1>9, <1>10 DEF Tables

\* Values a commit writes are those of rows that exist.
LEMMA Written ==
  ASSUME NEW w \in Writes
  PROVE  /\ DOMAIN w.account \subseteq Users /\ DOMAIN w.platform \subseteq Users
         /\ DOMAIN w.role \subseteq Memberships /\ DOMAIN w.works \subseteq Memberships
         /\ DOMAIN w.primary \subseteq Memberships
         /\ DOMAIN w.letter \subseteq Invitations /\ w.locks \subseteq Invitations
         /\ \A u \in DOMAIN w.account : w.account[u] \in {"active", "inactive"}
         /\ \A u \in DOMAIN w.platform : w.platform[u] \in {"admin", "owner"}
         /\ \A m \in DOMAIN w.role : w.role[m] \in Roles
         /\ \A i \in DOMAIN w.letter : w.letter[i] \in Letters
<1>1. /\ w.account \in Partials(Users, {"active", "inactive"})
      /\ w.platform \in Partials(Users, {"admin", "owner"})
      /\ w.role \in Partials(Memberships, Roles)
      /\ w.works \in Partials(Memberships, BOOLEAN)
      /\ w.primary \in Partials(Memberships, BOOLEAN)
      /\ w.letter \in Partials(Invitations, Letters) /\ w.locks \subseteq Invitations
  BY DEF Writes
<1> QED
  BY <1>1, PartialDomain

LEMMA StoresConsistent ==
  ASSUME IInv, NEW w, NEW adds, Lasting(w, adds), Stores(w), Valid(w)
  PROVE  Consistent'
<1> USE StoresTables, Written DEF Consistent, IInv
<1>1. w \in Writes
  BY DEF Lasting
<1>2. \A m \in Memberships : m[2] \in Users
  BY DEF Memberships
<1>3. ASSUME NEW m \in Memberships, works'[m] PROVE role'[m] # "none"
  BY <1>1, <1>3 DEF Lasting, Roles
<1>4. ASSUME NEW u \in Users, u \in DOMAIN w.account \/ account[u] # "none"
      PROVE  account'[u] # "none"
  BY <1>1, <1>4
<1>5. ASSUME NEW m \in Memberships, role'[m] # "none" PROVE account'[m[2]] # "none"
  BY <1>2, <1>4, <1>5 DEF Lasting
<1>6. ASSUME NEW u \in Users, platform'[u] # "none" PROVE account'[u] # "none"
  BY <1>4, <1>6 DEF Lasting
<1>7. Unique(platform', works', primary')
  BY DEF Valid, Stores
<1> QED
  BY <1>3, <1>5, <1>6, <1>7

\* What is held by others, whose invitations this commit does not touch, lasts.
LEMMA StoresLasting ==
  ASSUME IInv, NEW w, NEW adds, Lasting(w, adds), Stores(w),
         NEW v, NEW vadds, Lasting(v, vadds),
         v.locks \cap (w.accepted \cup w.revoked) = {},
         DOMAIN v.letter \cap DOMAIN w.letter = {}
  PROVE  Lasting(v, vadds)'
<1> USE StoresTables, Written
<1>1. w \in Writes /\ v \in Writes
  BY DEF Lasting
<1>2. \A m \in Memberships : m[2] \in Users
  BY DEF Memberships
<1>3. \A u \in Users : account[u] # "none" => account'[u] # "none"
  BY <1>1
<1>4. \A m \in Memberships : role[m] # "none" => role'[m] # "none"
  BY <1>1 DEF Roles
<1>5. \A i \in Invitations : letter[i] # None => letter'[i] = letter[i]
  BY DEF Lasting
<1>6. \A i \in DOMAIN v.letter : letter'[i] = None
  BY <1>1 DEF Lasting
<1>7. \A i \in v.locks : i \notin accepted' \cup revoked' /\ letter'[i] # None
  BY <1>1, <1>5 DEF Lasting, Stores
<1>8. \A u \in DOMAIN v.platform : v.platform[u] = "admin" => Demoted(v, vadds, u)'
  BY <1>1, <1>5 DEF Lasting, Demoted
<1>9. /\ \A m \in DOMAIN v.role : m[2] \in DOMAIN v.account \/ account'[m[2]] # "none"
      /\ \A m \in DOMAIN v.works : m \in DOMAIN v.role \/ role'[m] # "none"
      /\ \A u \in DOMAIN v.platform : u \in DOMAIN v.account \/ account'[u] # "none"
  BY <1>1, <1>2, <1>3, <1>4 DEF Lasting
<1> QED
  BY <1>6, <1>7, <1>8, <1>9 DEF Lasting

LEMMA StoresOthers ==
  ASSUME IInv, NEW w, NEW adds, Lasting(w, adds), Stores(w),
         NEW h \in [Requests -> Decisions \cup {None}],
         \A r \in Requests : h[r] \in {held[r], None}, MayOvertake(h),
         \A r \in Requests : h[r] # None =>
            /\ h[r].write.locks \cap (w.accepted \cup w.revoked) = {}
            /\ DOMAIN h[r].write.letter \cap DOMAIN w.letter = {},
         held' = Overtakes(h)
  PROVE  HeldInv'
<1> USE AccountsAssumption DEF HeldInv
<1>1. \A r \in Requests :
        /\ held'[r] = IF h[r] = None THEN None ELSE [h[r] EXCEPT !.overtaken = @ + 1]
        /\ h[r] # None => h[r] = held[r]
  BY DEF Overtakes
<1>2. ASSUME NEW r \in Requests, h[r] # None
      PROVE  /\ held'[r] \in Decisions /\ held'[r].write = held[r].write
             /\ held'[r].adds = held[r].adds /\ held'[r].overtaken # 0 /\ held[r] # None
  <2>1. h[r] \in Decisions /\ h[r].overtaken < MaxOvertaken
    BY <1>2 DEF MayOvertake
  <2>2. held'[r] = [h[r] EXCEPT !.overtaken = @ + 1]
    BY <1>1, <1>2
  <2> QED
    BY <1>1, <1>2, <2>1, <2>2 DEF Decisions
<1>3. held' \in [Requests -> Decisions \cup {None}]
  <2>1. held' = [r \in Requests |-> held'[r]]
    BY DEF Overtakes
  <2> QED
    BY <1>1, <1>2, <2>1
<1>4. ASSUME NEW r \in Requests, held'[r] # None
      PROVE  /\ Lasting(held[r].write, held[r].adds)'
             /\ (held[r].overtaken = 0 => Right(held[r].write))'
  <2>1. h[r] # None
    BY <1>1, <1>4
  <2>2. PICK v, vadds : v = held[r].write /\ vadds = held[r].adds
    OBVIOUS
  <2>3. Lasting(v, vadds)
    BY <1>2, <2>1, <2>2 DEF IInv
  <2>4. Lasting(v, vadds)'
    BY <1>1, <2>1, <2>2, <2>3, StoresLasting
  <2> QED
    BY <1>2, <2>1, <2>2, <2>4
<1>5. ASSUME NEW r \in Requests, NEW q \in Requests, r # q, held'[r] # None, held'[q] # None
      PROVE  /\ held'[r].write.locks \cap held'[q].write.locks = {}
             /\ DOMAIN held'[r].write.letter \cap DOMAIN held'[q].write.letter = {}
  BY <1>1, <1>2, <1>5 DEF IInv
<1> QED
  BY <1>3, <1>4, <1>5

LEMMA StoresAccepts ==
  ASSUME IInv, NEW w, NEW adds, Lasting(w, adds), Stores(w)
  PROVE  /\ \A i \in accepted' \ accepted : i \in w.accepted /\ i \notin revoked
         /\ accepted' \ accepted = w.accepted
         /\ \A i \in Invitations : acceptances'[i] # acceptances[i] =>
               i \in w.accepted /\ i \notin revoked /\ acceptances[i] = 0
         /\ \A i \in w.accepted : Gives(w, i) =>
               LET u == letter[i].to
                   c == letter[i].at
               IN \/ c = None /\ platform'[u] = "admin"
                  \/ c # None /\ works'[c, u] /\ role'[c, u] = letter[i].as
<1>1. \A i \in Invitations : acceptances'[i] # acceptances[i] => i \in w.accepted
  BY DEF Stores
<1>2. \A i \in w.accepted : i \notin accepted /\ i \notin revoked
  BY DEF Lasting
<1>3. \A i \in Invitations : i \notin accepted => acceptances[i] = 0
  BY DEF IInv, Tables
<1> QED
  BY <1>1, <1>2, <1>3 DEF Lasting, Stores, Gives

\* Whoever was the owner is followed by another, or has accepted an invitation.
LEMMA StoresOwner ==
  ASSUME IInv, NEW w, NEW adds, Lasting(w, adds), Stores(w), ~Added(adds)
  PROVE  KeepsOwner
<1> SUFFICES ASSUME NEW u \in Users, platform[u] = "owner", ~Owned'
             PROVE  \E i \in accepted' \ accepted :
                       letter[i].at = None /\ platform[letter[i].to] = "owner"
  BY DEF KeepsOwner, Owned
<1>1. w \in Writes
  BY DEF Lasting
<1>2. \A x \in DOMAIN w.platform : x \in Users /\ w.platform[x] # "owner"
  BY <1>1, Written, StoresTables DEF Owned
<1>3. u \in DOMAIN w.platform /\ w.platform[u] = "admin"
  BY <1>1, <1>2, Written, StoresTables DEF Owned
<1>4. Demoted(w, adds, u)
  BY <1>3 DEF Lasting
<1>5. u \notin adds.users
  BY DEF Added, IInv, Consistent
<1>6. PICK i \in w.accepted : letter[i].at = None /\ letter[i].to = u
  BY <1>2, <1>4, <1>5 DEF Demoted
<1> QED
  BY <1>6, StoresAccepts

LEMMA StoresGood ==
  ASSUME IInv, NEW w, NEW adds, Lasting(w, adds), Stores(w), ~Added(adds),
         Right(w) \/ Overtaken
  PROVE  Good
<1>1. AcceptsOnce
  BY StoresAccepts DEF AcceptsOnce, Right
<1>2. KeepsPrimary
  <2>1. ASSUME NEW c \in Companies, NEW u \in Users, LeadsAfter(w, c, u) PROVE Led(c)'
    BY <2>1 DEF LeadsAfter, Led, Leads, Stores
  <2> QED
    BY <2>1, StoresAccepts DEF KeepsPrimary, Right
<1>3. JoinsOne
  <2>1. ASSUME NEW u \in Users, Several(u)' PROVE SeveralAfter(w, u)
    BY <2>1 DEF Several, SeveralAfter, Stores
  <2>2. ASSUME w.accepted = {}, ~w.setup PROVE accepted' = accepted /\ setup' = setup
    BY <2>2 DEF Stores, IInv, Tables
  <2>3. works' = Over(w.works, works)
    BY DEF Stores
  <2> QED
    BY <2>1, <2>2, <2>3 DEF JoinsOne, Right
<1> QED
  BY <1>1, <1>2, <1>3, StoresOwner DEF Good

LEMMA UnchangedGood ==
  ASSUME UNCHANGED tables PROVE Good
  BY DEF tables, Good, AcceptsOnce, KeepsPrimary, KeepsOwner, JoinsOne, Led, Leads, Owned,
         Several

-----------------------------------------------------------------------------
(* A handler finishes, goes on, or dies *)

\* The columns left out are those that would be written as they are.
LEMMA ChangedColumns ==
  ASSUME IInv, NEW w \in Writes
  PROVE  LET c == Changed(w)
         IN /\ c \in Writes
            /\ c.account = Differs(w.account, account)
            /\ c.platform = Differs(w.platform, platform)
            /\ c.role = Differs(w.role, role) /\ c.works = Differs(w.works, works)
            /\ c.letter = w.letter /\ c.accepted = w.accepted /\ c.revoked = w.revoked
            /\ c.setup = w.setup /\ c.locks = w.locks
            /\ Over(c.platform, platform) = Over(w.platform, platform)
            /\ Over(c.role, role) = Over(w.role, role)
            /\ Over(c.works, works) = Over(w.works, works)
            /\ Over(c.primary, primary) = Over(w.primary, primary)
<1>1. /\ w.account \in Partials(Users, {"active", "inactive"})
      /\ w.platform \in Partials(Users, {"admin", "owner"})
      /\ w.company \in Partials(Companies, Statuses)
      /\ w.role \in Partials(Memberships, Roles)
      /\ w.works \in Partials(Memberships, BOOLEAN)
      /\ w.primary \in Partials(Memberships, BOOLEAN)
  BY DEF Writes
<1>3. PICK a, p, co, ro, wo, pr :
         /\ a = Differs(w.account, account) /\ p = Differs(w.platform, platform)
         /\ co = Differs(w.company, company) /\ ro = Differs(w.role, role)
         /\ wo = Differs(w.works, works) /\ pr = Differs(w.primary, primary)
  OBVIOUS
<1>4. a \in Partials(Users, {"active", "inactive"})
  <2> DEFINE f == w.account
             g == account
             T == {"active", "inactive"}
  <2>1. f \in Partials(Users, T) /\ a = Differs(f, g)
    BY <1>1, <1>3
  <2> HIDE DEF f, g, T
  <2>2. /\ Differs(f, g) \in Partials(Users, T)
        /\ Over(Differs(f, g), g) = Over(f, g)
    BY <2>1, DiffersPartial
  <2> QED
    BY <2>1, <2>2 DEF f, g, T
<1>5. p \in Partials(Users, {"admin", "owner"}) /\ Over(p, platform) = Over(w.platform, platform)
  <2> DEFINE f == w.platform
             g == platform
             T == {"admin", "owner"}
  <2>1. f \in Partials(Users, T) /\ p = Differs(f, g)
    BY <1>1, <1>3
  <2> HIDE DEF f, g, T
  <2>2. /\ Differs(f, g) \in Partials(Users, T)
        /\ Over(Differs(f, g), g) = Over(f, g)
    BY <2>1, DiffersPartial
  <2> QED
    BY <2>1, <2>2 DEF f, g, T
<1>6. co \in Partials(Companies, Statuses)
  <2> DEFINE f == w.company
             g == company
             T == Statuses
  <2>1. f \in Partials(Companies, T) /\ co = Differs(f, g)
    BY <1>1, <1>3
  <2> HIDE DEF f, g, T
  <2>2. /\ Differs(f, g) \in Partials(Companies, T)
        /\ Over(Differs(f, g), g) = Over(f, g)
    BY <2>1, DiffersPartial
  <2> QED
    BY <2>1, <2>2 DEF f, g, T
<1>7. ro \in Partials(Memberships, Roles) /\ Over(ro, role) = Over(w.role, role)
  <2> DEFINE f == w.role
             g == role
             T == Roles
  <2>1. f \in Partials(Memberships, T) /\ ro = Differs(f, g)
    BY <1>1, <1>3
  <2> HIDE DEF f, g, T
  <2>2. /\ Differs(f, g) \in Partials(Memberships, T)
        /\ Over(Differs(f, g), g) = Over(f, g)
    BY <2>1, DiffersPartial
  <2> QED
    BY <2>1, <2>2 DEF f, g, T
<1>8. wo \in Partials(Memberships, BOOLEAN) /\ Over(wo, works) = Over(w.works, works)
  <2> DEFINE f == w.works
             g == works
             T == BOOLEAN
  <2>1. f \in Partials(Memberships, T) /\ wo = Differs(f, g)
    BY <1>1, <1>3
  <2> HIDE DEF f, g, T
  <2>2. /\ Differs(f, g) \in Partials(Memberships, T)
        /\ Over(Differs(f, g), g) = Over(f, g)
    BY <2>1, DiffersPartial
  <2> QED
    BY <2>1, <2>2 DEF f, g, T
<1>9. pr \in Partials(Memberships, BOOLEAN) /\ Over(pr, primary) = Over(w.primary, primary)
  <2> DEFINE f == w.primary
             g == primary
             T == BOOLEAN
  <2>1. f \in Partials(Memberships, T) /\ pr = Differs(f, g)
    BY <1>1, <1>3
  <2> HIDE DEF f, g, T
  <2>2. /\ Differs(f, g) \in Partials(Memberships, T)
        /\ Over(Differs(f, g), g) = Over(f, g)
    BY <2>1, DiffersPartial
  <2> QED
    BY <2>1, <2>2 DEF f, g, T
<1>10. Changed(w) = [w EXCEPT !.account = a, !.platform = p, !.company = co, !.role = ro,
                              !.works = wo, !.primary = pr]
  BY <1>3 DEF Changed, Writes
<1>11. LET c == [w EXCEPT !.account = a, !.platform = p, !.company = co, !.role = ro,
                          !.works = wo, !.primary = pr]
       IN /\ c \in Writes
          /\ c.account = a /\ c.platform = p /\ c.role = ro /\ c.works = wo /\ c.primary = pr
          /\ c.letter = w.letter /\ c.accepted = w.accepted /\ c.revoked = w.revoked
          /\ c.setup = w.setup /\ c.locks = w.locks
  BY <1>4, <1>5, <1>6, <1>7, <1>8, <1>9 DEF Writes
<1> QED
  BY <1>3, <1>5, <1>7, <1>8, <1>9, <1>10, <1>11

LEMMA ChangedLasting ==
  ASSUME IInv, NEW w, Decided(w)
  PROVE  LET c == Changed(w)
         IN Right(c) /\ Lasting(c, Adds(w))
<1> DEFINE c == Changed(w)
<1>1. w \in Writes /\ Right(w) /\ Lasting(w, Adds(w))
  BY DEF Decided, Lasting
<1>2. /\ c \in Writes
      /\ c.account = Differs(w.account, account)
      /\ c.platform = Differs(w.platform, platform)
      /\ c.role = Differs(w.role, role) /\ c.works = Differs(w.works, works)
      /\ c.letter = w.letter /\ c.accepted = w.accepted /\ c.revoked = w.revoked
      /\ c.setup = w.setup /\ c.locks = w.locks
      /\ Over(c.platform, platform) = Over(w.platform, platform)
      /\ Over(c.role, role) = Over(w.role, role)
      /\ Over(c.works, works) = Over(w.works, works)
      /\ Over(c.primary, primary) = Over(w.primary, primary)
  BY <1>1, ChangedColumns
<1> HIDE DEF c
<1>3. Right(c)
  <2>1. /\ \A i : Gives(c, i) <=> Gives(w, i)
        /\ \A d, u : LeadsAfter(c, d, u) <=> LeadsAfter(w, d, u)
        /\ \A u : SeveralAfter(c, u) <=> SeveralAfter(w, u)
    BY ONLY <1>2 DEF Gives, LeadsAfter, SeveralAfter
  <2>2. c.accepted = w.accepted /\ c.setup = w.setup /\ Over(c.works, works) = Over(w.works, works)
    BY <1>2
  <2>3. \A i \in c.accepted : Gives(c, i)
    BY ONLY <1>1, <2>1, <2>2 DEF Right
  <2>4. \A d \in Companies : Led(d) =>
          \/ \E u \in Users : LeadsAfter(c, d, u)
          \/ \E i \in c.accepted :
                letter[i].at = d /\ letter[i].as = "company_user" /\ Leads(d, letter[i].to)
    BY ONLY <1>1, <2>1, <2>2 DEF Right
  <2>5. \A u \in Users : ~Several(u) /\ SeveralAfter(c, u) =>
          /\ c.accepted = {} /\ ~c.setup
          /\ \E d \in Companies :
                role[d, u] # "none" /\ ~works[d, u] /\ Over(c.works, works)[d, u]
    BY ONLY <1>1, <2>1, <2>2 DEF Right
  <2> QED
    BY ONLY <2>3, <2>4, <2>5 DEF Right
<1>4. /\ DOMAIN c.account = {u \in DOMAIN w.account : w.account[u] # account[u]}
      /\ DOMAIN c.platform = {u \in DOMAIN w.platform : w.platform[u] # platform[u]}
      /\ \A u \in DOMAIN c.platform : c.platform[u] = w.platform[u]
      /\ DOMAIN c.role = {m \in DOMAIN w.role : w.role[m] # role[m]}
      /\ DOMAIN c.works = {m \in DOMAIN w.works : w.works[m] # works[m]}
  BY <1>2 DEF Differs
<1>5. \A m \in DOMAIN c.role : m[2] \in DOMAIN c.account \/ account[m[2]] # "none"
  BY <1>1, <1>4, Written DEF Lasting
<1>6. \A m \in DOMAIN c.works : m \in DOMAIN c.role \/ role[m] # "none"
  BY <1>1, <1>4, Written DEF Lasting, Roles
<1>7. \A u \in DOMAIN c.platform : u \in DOMAIN c.account \/ account[u] # "none"
  BY <1>1, <1>4, Written DEF Lasting
<1>8. ASSUME NEW u \in DOMAIN c.platform, c.platform[u] = "admin"
      PROVE  Demoted(c, Adds(w), u)
  <2>1. u \in DOMAIN w.platform /\ w.platform[u] = "admin" /\ u \in Users
    BY <1>1, <1>4, <1>8, Written
  <2>2. CASE \E v \in DOMAIN w.platform : w.platform[v] = "owner"
    <3>1. PICK v \in DOMAIN w.platform : w.platform[v] = "owner"
      BY <2>2
    <3>2. platform[u] = "owner" /\ v \in Users /\ u # v
      BY <1>1, <2>1, <3>1, Written DEF Decided
    <3>3. platform[v] # "owner"
      BY <2>1, <3>2 DEF IInv, Consistent, Unique
    <3> QED
      BY <1>4, <3>1, <3>3 DEF Demoted
  <2>3. CASE ~ \E v \in DOMAIN w.platform : w.platform[v] = "owner"
    BY <1>1, <1>2, <2>1, <2>3 DEF Lasting, Demoted
  <2> QED
    BY <2>2, <2>3
<1>9. Lasting(c, Adds(w))
  BY <1>1, <1>2, <1>5, <1>6, <1>7, <1>8 DEF Lasting
<1> QED
  BY <1>3, <1>9 DEF c

LEMMA StillLasting ==
  ASSUME UNCHANGED tables, NEW v, NEW vadds
  PROVE  /\ Lasting(v, vadds) => Lasting(v, vadds)'
         /\ Right(v) => Right(v)'
<1>1. Lasting(v, vadds) => Lasting(v, vadds)'
  BY DEF Lasting, Demoted, tables
<1>2. Right(v) => Right(v)'
  BY DEF Right, Gives, Led, Leads, LeadsAfter, Several, SeveralAfter, tables
<1> QED
  BY <1>1, <1>2

LEMMA FinishStep ==
  ASSUME IInv, NEW w, Decided(w), Finish(w)
  PROVE  IInv' /\ Good
<1>1. Lasting(w, Adds(w)) /\ Right(w)
  BY DEF Decided
<1>2. CASE /\ Valid(w) /\ ~Waits(w) /\ MayOvertake(held)
           /\ Stores(w) /\ held' = Overtakes(held)
  <2>1. \A r \in Requests : held[r] # None =>
           /\ held[r].write.locks \cap (w.accepted \cup w.revoked) = {}
           /\ DOMAIN held[r].write.letter \cap DOMAIN w.letter = {}
    BY <1>2 DEF Waits, Locked, Decided
  <2>2. ~Added(Adds(w))
    BY DEF Added, Adds
  <2>3. held \in [Requests -> Decisions \cup {None}] /\ \A r \in Requests : held[r] \in {held[r], None}
    BY DEF IInv, HeldInv
  <2>4. PICK adds : adds = Adds(w)
    OBVIOUS
  <2>5. Lasting(w, adds) /\ ~Added(adds)
    BY <1>1, <2>2, <2>4
  <2>6. HeldInv'
    BY <1>2, <2>1, <2>3, <2>5, StoresOthers
  <2>7. Tables' /\ Consistent'
    BY <1>2, <2>5, StoresTables, StoresConsistent
  <2> QED
    BY <1>1, <1>2, <2>5, <2>6, <2>7, StoresGood DEF IInv
<1>3. ASSUME NEW r \in Requests, held[r] = None, UNCHANGED tables,
             held' = [held EXCEPT ![r] =
                        [write |-> Changed(w), adds |-> Adds(w), overtaken |-> 0]]
      PROVE  IInv' /\ Good
  <2>1. PICK c, adds : c = Changed(w) /\ adds = Adds(w)
    OBVIOUS
  <2>2. Right(c) /\ Lasting(c, adds)
    BY <2>1, ChangedLasting
  <2>3. c.locks = w.locks /\ c.letter = w.letter
    BY <1>1, <2>1, ChangedColumns DEF Lasting
  <2>4. [write |-> c, adds |-> adds, overtaken |-> 0] \in Decisions
    BY <2>2, AccountsAssumption DEF Lasting, Decisions
  <2>5. /\ held' \in [Requests -> Decisions \cup {None}]
        /\ held'[r].write = c /\ held'[r].adds = adds
        /\ \A q \in Requests \ {r} : held'[q] = held[q]
    BY <1>3, <2>1, <2>4 DEF IInv, HeldInv
  <2>6. ASSUME NEW q \in Requests, held'[q] # None
        PROVE  (/\ Lasting(held[q].write, held[q].adds)
                /\ held[q].overtaken = 0 => Right(held[q].write))'
    <3>1. PICK v, vadds : v = held'[q].write /\ vadds = held'[q].adds
      OBVIOUS
    <3>2. Lasting(v, vadds) /\ (held'[q].overtaken = 0 => Right(v))
      BY <2>2, <2>5, <2>6, <3>1 DEF IInv, HeldInv
    <3>3. Lasting(v, vadds)' /\ (held'[q].overtaken = 0 => Right(v)')
      BY <1>3, <3>2, StillLasting
    <3> QED
      BY <3>1, <3>3
  <2>7. \A q \in Requests \ {r} : held'[q] # None =>
           /\ held'[q].write.locks \cap c.locks = {}
           /\ DOMAIN held'[q].write.letter \cap DOMAIN c.letter = {}
    BY <2>3, <2>5 DEF Locked, Decided
  <2>8. HeldInv'
    BY <2>5, <2>6, <2>7 DEF IInv, HeldInv
  <2>9. Tables' /\ Consistent'
    BY <1>3 DEF IInv, Tables, Consistent, Unique, tables
  <2> QED
    BY <1>3, <2>8, <2>9, UnchangedGood DEF IInv
<1> QED
  BY <1>2, <1>3 DEF Finish

\* A request that only lets go of what it has held.
LEMMA ReleaseStep ==
  ASSUME IInv, NEW r \in Requests, held[r] # None, held' = [held EXCEPT ![r] = None],
         UNCHANGED tables
  PROVE  IInv' /\ Good
<1>1. /\ held' \in [Requests -> Decisions \cup {None}]
      /\ \A q \in Requests : held'[q] # None => held'[q] = held[q]
  BY DEF IInv, HeldInv
<1>2. ASSUME NEW q \in Requests, held'[q] # None
      PROVE  (/\ Lasting(held[q].write, held[q].adds)
              /\ held[q].overtaken = 0 => Right(held[q].write))'
  <2>1. PICK v, vadds : v = held'[q].write /\ vadds = held'[q].adds
    OBVIOUS
  <2>2. Lasting(v, vadds) /\ (held'[q].overtaken = 0 => Right(v))
    BY <1>1, <1>2, <2>1 DEF IInv, HeldInv
  <2>3. Lasting(v, vadds)' /\ (held'[q].overtaken = 0 => Right(v)')
    BY <2>2, StillLasting
  <2> QED
    BY <2>1, <2>3
<1>3. HeldInv'
  BY <1>1, <1>2 DEF IInv, HeldInv
<1>4. Tables' /\ Consistent'
  BY DEF IInv, Tables, Consistent, Unique, tables
<1> QED
  BY <1>3, <1>4, UnchangedGood DEF IInv

LEMMA ResumeStep ==
  ASSUME IInv, NEW r \in Requests, Resume(r)
  PROVE  IInv' /\ Good
<1>1. PICK w, adds : w = held[r].write /\ adds = held[r].adds
  OBVIOUS
<1>2. PICK others : others = [held EXCEPT ![r] = None]
  OBVIOUS
<1>3. held[r] # None
  BY DEF Resume
<1>4. CASE /\ Valid(w) /\ ~Added(adds) /\ MayOvertake(others)
           /\ ~ \E i \in w.revoked \ w.locks : Locked(i)
           /\ Stores(w) /\ held' = Overtakes(others)
  <2>1. /\ held \in [Requests -> Decisions \cup {None}]
        /\ Lasting(w, adds) /\ (held[r].overtaken = 0 => Right(w))
    BY <1>1, <1>3 DEF IInv, HeldInv
  <2>2. /\ others \in [Requests -> Decisions \cup {None}]
        /\ others[r] = None /\ \A q \in Requests \ {r} : others[q] = held[q]
    BY <1>2, <2>1
  <2>3. \A q \in Requests : others[q] # None =>
           /\ others[q].write.locks \cap (w.accepted \cup w.revoked) = {}
           /\ DOMAIN others[q].write.letter \cap DOMAIN w.letter = {}
    <3> SUFFICES ASSUME NEW q \in Requests, others[q] # None
                 PROVE  /\ others[q].write.locks \cap (w.accepted \cup w.revoked) = {}
                        /\ DOMAIN others[q].write.letter \cap DOMAIN w.letter = {}
      OBVIOUS
    <3>1. q # r /\ held[q] # None /\ others[q] = held[q]
      BY <2>2
    <3>2. /\ held[q].write.locks \cap w.locks = {}
          /\ DOMAIN held[q].write.letter \cap DOMAIN w.letter = {}
      BY <1>1, <1>3, <3>1 DEF IInv, HeldInv
    <3>3. w.accepted \subseteq w.locks
      BY <2>1 DEF Lasting
    <3>4. \A i \in held[q].write.locks : Locked(i)
      BY <3>1 DEF Locked
    <3> QED
      BY <1>4, <3>1, <3>2, <3>3, <3>4
  <2>4. \A q \in Requests : others[q] \in {held[q], None}
    BY <2>2
  <2>5. HeldInv'
    BY <1>4, <2>1, <2>2, <2>3, <2>4, StoresOthers
  <2>6. Right(w) \/ Overtaken
    <3>1. held'[r] = None
      BY <1>4, <2>2 DEF Overtakes
    <3>2. held[r].overtaken \in Nat
      BY <1>3, <2>1, AccountsAssumption DEF Decisions
    <3> QED
      BY <1>3, <2>1, <3>1, <3>2 DEF Overtaken
  <2>7. Tables' /\ Consistent'
    BY <1>4, <2>1, StoresTables, StoresConsistent
  <2> QED
    BY <1>4, <2>1, <2>5, <2>6, <2>7, StoresGood DEF IInv
<1>5. CASE held' = others /\ UNCHANGED tables
  BY <1>2, <1>3, <1>5, ReleaseStep
<1> QED
  BY <1>1, <1>2, <1>4, <1>5 DEF Resume

LEMMA DiesStep ==
  ASSUME IInv, NEW r \in Requests, Dies(r)
  PROVE  IInv' /\ Good
  BY ReleaseStep DEF Dies

-----------------------------------------------------------------------------
(* What the handlers decide *)

LEMMA NothingDecided ==
  /\ Nothing \in Writes
  /\ DOMAIN Nothing.account = {} /\ DOMAIN Nothing.platform = {}
  /\ DOMAIN Nothing.role = {} /\ DOMAIN Nothing.works = {} /\ DOMAIN Nothing.primary = {}
  /\ DOMAIN Nothing.letter = {} /\ Nothing.accepted = {} /\ Nothing.revoked = {}
  /\ Nothing.setup = FALSE /\ Nothing.locks = {}
<1>1. \A S, T : Empty \in Partials(S, T) /\ DOMAIN Empty = {}
  BY EmptyPartial
<1> HIDE DEF Empty
<1> QED
  BY <1>1 DEF Nothing, Writes

LEMMA AddsRows ==
  ASSUME NEW w \in Writes PROVE Adds(w) \in Additions
<1>1. /\ DOMAIN w.account \subseteq Users /\ DOMAIN w.company \subseteq Companies
      /\ DOMAIN w.role \subseteq Memberships
  BY Written, PartialDomain DEF Writes
<1> QED
  BY <1>1 DEF Adds, Additions

\* The memberships stay as they are.
LEMMA PlainRight ==
  ASSUME IInv, NEW w \in Writes, DOMAIN w.role = {}, DOMAIN w.works = {},
         DOMAIN w.primary = {}, \A i \in w.accepted : Gives(w, i)
  PROVE  Right(w)
<1>1. /\ role \in [Memberships -> {"none"} \cup Roles]
      /\ works \in [Memberships -> BOOLEAN] /\ primary \in [Memberships -> BOOLEAN]
  BY DEF IInv, Tables
<1>2. Over(w.role, role) = role /\ Over(w.works, works) = works /\ Over(w.primary, primary) = primary
  BY <1>1 DEF Over
<1> QED
  BY <1>2 DEF Right, LeadsAfter, SeveralAfter, Led, Leads, Several

\* A commit to no membership, no platform role and no invitation but to revoke some.
LEMMA PlainStep ==
  ASSUME IInv, NEW w \in Writes, DOMAIN w.role = {}, DOMAIN w.works = {},
         DOMAIN w.primary = {}, DOMAIN w.platform = {}, w.accepted = {}, w.locks = {},
         \A i \in DOMAIN w.letter : letter[i] = None,
         \A r \in Requests : held[r] # None =>
            DOMAIN held[r].write.letter \cap DOMAIN w.letter = {},
         Finish(w)
  PROVE  IInv' /\ Good
<1>1. Right(w)
  BY PlainRight
<1>2. Adds(w) \in Additions
  BY AddsRows
<1>3. Lasting(w, Adds(w))
  BY <1>2 DEF Lasting
<1> QED
  BY <1>1, <1>3, FinishStep DEF Decided

\* One membership is added or written whole, and nobody who leads loses it.
LEMMA MemberRight ==
  ASSUME IInv, NEW w \in Writes, NEW c \in Companies, NEW u \in Users,
         NEW r \in Roles, NEW on \in BOOLEAN, NEW first \in BOOLEAN,
         w.role = Cell(<<c, u>>, r), w.works = Cell(<<c, u>>, on),
         w.primary = Cell(<<c, u>>, first),
         \A i \in w.accepted : Gives(w, i),
         Leads(c, u) => \/ first /\ on /\ r = "company_admin"
                        \/ \E i \in w.accepted : /\ letter[i].at = c /\ letter[i].to = u
                                                 /\ letter[i].as = "company_user",
         on /\ ~works[c, u] =>
            \/ role[c, u] # "none" /\ w.accepted = {} /\ ~w.setup
            \/ \A d \in Companies \ {c} : ~works[d, u]
  PROVE  Right(w)
<1> DEFINE m == <<c, u>>
<1>1. /\ role \in [Memberships -> {"none"} \cup Roles]
      /\ works \in [Memberships -> BOOLEAN] /\ primary \in [Memberships -> BOOLEAN]
      /\ m \in Memberships
  BY DEF IInv, Tables, Memberships
<1>2. PICK ro, wo, pr : /\ ro = Over(w.role, role) /\ wo = Over(w.works, works)
                        /\ pr = Over(w.primary, primary)
  OBVIOUS
<1>3. /\ \A x \in Memberships : ro[x] = IF x = m THEN r ELSE role[x]
      /\ \A x \in Memberships : wo[x] = IF x = m THEN on ELSE works[x]
      /\ \A x \in Memberships : pr[x] = IF x = m THEN first ELSE primary[x]
  BY <1>1, <1>2 DEF Over, Cell
<1>4. \A d \in Companies, v \in Users : <<d, v>> \in Memberships /\ (<<d, v>> = m <=> d = c /\ v = u)
  BY DEF Memberships
<1>5. ASSUME NEW d \in Companies, NEW v \in Users, Leads(d, v), ~ \E x \in Users : LeadsAfter(w, d, x)
      PROVE  \E i \in w.accepted :
                letter[i].at = d /\ letter[i].as = "company_user" /\ Leads(d, letter[i].to)
  <2>1. /\ primary[<<d, v>>] /\ works[<<d, v>>] /\ role[<<d, v>>] = "company_admin"
        /\ ~(pr[<<d, v>>] /\ wo[<<d, v>>] /\ ro[<<d, v>>] = "company_admin")
    BY <1>2, <1>5 DEF Leads, LeadsAfter
  <2>2. d = c /\ v = u
    BY <1>3, <1>4, <2>1
  <2>3. ~(first /\ on /\ r = "company_admin")
    BY <1>1, <1>3, <2>1, <2>2
  <2> QED
    BY <1>5, <2>2, <2>3
<1>6. ASSUME NEW v \in Users, ~Several(v), SeveralAfter(w, v)
      PROVE  /\ w.accepted = {} /\ ~w.setup
             /\ \E d \in Companies :
                   role[d, v] # "none" /\ ~works[d, v] /\ Over(w.works, works)[d, v]
  <2>1. PICK a \in Companies, b \in Companies : a # b /\ wo[<<a, v>>] /\ wo[<<b, v>>]
    BY <1>2, <1>6 DEF SeveralAfter
  <2>2. ~(works[<<a, v>>] /\ works[<<b, v>>])
    BY <1>6, <2>1 DEF Several
  <2>3. on /\ v = u /\ ~works[<<c, u>>] /\ (a = c \/ b = c)
    BY <1>3, <1>4, <2>1, <2>2
  <2>4. PICK d \in Companies \ {c} : works[<<d, u>>]
    BY <1>3, <1>4, <2>1, <2>3
  <2>5. role[c, u] # "none" /\ w.accepted = {} /\ ~w.setup
    BY <2>3, <2>4
  <2>6. wo[<<c, u>>]
    BY <1>1, <1>3, <2>3
  <2> QED
    BY <1>2, <2>3, <2>5, <2>6
<1> QED
  BY <1>5, <1>6 DEF Right, Led

LEMMA MemberLasting ==
  ASSUME IInv, NEW w \in Writes, NEW c \in Companies, NEW u \in Users, NEW r, NEW on,
         w.role = Cell(<<c, u>>, r), w.works = Cell(<<c, u>>, on), DOMAIN w.account = {u},
         \A v \in DOMAIN w.platform : v = u /\ w.platform[v] = "owner",
         DOMAIN w.letter = {}, w.accepted = {}, w.locks = {}
  PROVE  Lasting(w, Adds(w))
<1>1. DOMAIN w.role = {<<c, u>>} /\ DOMAIN w.works = {<<c, u>>}
  BY DEF Cell
<1> QED
  BY <1>1, AddsRows DEF Lasting

LEMMA MemberStep ==
  ASSUME IInv, NEW w \in Writes, NEW c \in Companies, NEW u \in Users,
         NEW r \in Roles, NEW on \in BOOLEAN, NEW first \in BOOLEAN,
         w.role = Cell(<<c, u>>, r), w.works = Cell(<<c, u>>, on),
         w.primary = Cell(<<c, u>>, first), DOMAIN w.account = {u},
         \A v \in DOMAIN w.platform : v = u /\ w.platform[v] = "owner",
         DOMAIN w.letter = {}, w.accepted = {}, w.locks = {},
         Leads(c, u) => first /\ on /\ r = "company_admin",
         on /\ ~works[c, u] =>
            \/ role[c, u] # "none" /\ ~w.setup
            \/ \A d \in Companies \ {c} : ~works[d, u],
         Finish(w)
  PROVE  IInv' /\ Good
<1>1. Right(w)
  BY MemberRight
<1>2. Lasting(w, Adds(w))
  BY MemberLasting
<1> QED
  BY <1>1, <1>2, FinishStep DEF Decided

\* A company is added.
WithCompany(w, c, s) == [w EXCEPT !.company = Cell(c, s)]

LEMMA WithCompanyWrites ==
  ASSUME NEW w \in Writes, NEW c \in Companies, NEW s \in Statuses, NEW n,
         n = WithCompany(w, c, s)
  PROVE  /\ n \in Writes /\ n.role = w.role /\ n.works = w.works /\ n.primary = w.primary
         /\ n.account = w.account /\ n.platform = w.platform /\ n.letter = w.letter
         /\ n.accepted = w.accepted /\ n.revoked = w.revoked /\ n.setup = w.setup
         /\ n.locks = w.locks
<1>1. PICK co \in Partials(Companies, Statuses) : co = Cell(c, s)
  BY CellPartial
<1>2. n = [w EXCEPT !.company = co]
  BY <1>1 DEF WithCompany
<1> QED
  BY <1>2 DEF Writes

\* A membership is written whole, with the account of its user.
Whole(c, u, r, on, first, to) ==
    [Membership(<<c, u>>, r, on, first) EXCEPT !.account = Cell(u, to)]

IsWhole(w, c, u, r, on, first, to) ==
    /\ w \in Writes /\ w.role = Cell(<<c, u>>, r) /\ w.works = Cell(<<c, u>>, on)
    /\ w.primary = Cell(<<c, u>>, first) /\ w.account = Cell(u, to)
    /\ DOMAIN w.account = {u} /\ DOMAIN w.platform = {} /\ DOMAIN w.letter = {}
    /\ w.accepted = {} /\ w.revoked = {} /\ w.setup = FALSE /\ w.locks = {}

LEMMA MembershipWrites ==
  ASSUME NEW c \in Companies, NEW u \in Users, NEW r \in Roles, NEW on \in BOOLEAN,
         NEW first \in BOOLEAN, NEW to \in {"active", "inactive"}
  PROVE  IsWhole(Whole(c, u, r, on, first, to), c, u, r, on, first, to)
<1>0. PICK w : w = Whole(c, u, r, on, first, to)
  OBVIOUS
<1> DEFINE m == <<c, u>>
<1>1. PICK ro, wo, pr, ac : /\ ro = Cell(m, r) /\ wo = Cell(m, on) /\ pr = Cell(m, first)
                            /\ ac = Cell(u, to)
  OBVIOUS
<1>2. m \in Memberships
  BY DEF Memberships
<1> HIDE DEF m
<1>3. /\ ro \in Partials(Memberships, Roles) /\ wo \in Partials(Memberships, BOOLEAN)
      /\ pr \in Partials(Memberships, BOOLEAN)
  BY <1>1, <1>2, CellPartial
<1>4. ac \in Partials(Users, {"active", "inactive"}) /\ DOMAIN ac = {u}
  <2> DEFINE T == {"active", "inactive"}
  <2>1. to \in T
    OBVIOUS
  <2> HIDE DEF T
  <2>2. Cell(u, to) \in Partials(Users, T) /\ DOMAIN Cell(u, to) = {u}
    BY <2>1, CellPartial
  <2> QED
    BY <1>1, <2>2 DEF T
<1>5. w = [Nothing EXCEPT !.role = ro, !.works = wo, !.primary = pr, !.account = ac]
  BY <1>0, <1>1, NothingDecided DEF Whole, Membership, Writes, m
<1>6. /\ w \in Writes /\ w.role = ro /\ w.works = wo /\ w.primary = pr /\ w.account = ac
      /\ DOMAIN w.platform = {} /\ DOMAIN w.letter = {}
      /\ w.accepted = {} /\ w.revoked = {} /\ w.setup = FALSE /\ w.locks = {}
  BY <1>3, <1>4, <1>5, NothingDecided DEF Writes
<1> QED
  BY <1>0, <1>1, <1>4, <1>6 DEF m, IsWhole

\* update_company_user() and update_managed_user()
LEMMA UpdateStep ==
  ASSUME IInv, NEW c \in Companies, NEW u \in Users, NEW r \in Roles, NEW on \in BOOLEAN,
         role[<<c, u>>] # "none", Leads(c, u) => on /\ r = "company_admin",
         Finish(Whole(c, u, r, on, primary[<<c, u>>], Activity(on)))
  PROVE  IInv' /\ Good
<1>1. PICK first \in BOOLEAN : first = primary[<<c, u>>]
  BY DEF IInv, Tables, Memberships
<1>2. PICK to \in {"active", "inactive"} : to = Activity(on)
  BY DEF Activity
<1>3. PICK w : w = Whole(c, u, r, on, first, to)
  OBVIOUS
<1>4. IsWhole(w, c, u, r, on, first, to)
  BY <1>3, MembershipWrites
<1>5. Finish(w)
  BY <1>1, <1>2, <1>3
<1>6. Leads(c, u) => first
  BY <1>1 DEF Leads
<1> QED
  BY <1>4, <1>5, <1>6, MemberStep DEF IsWhole

\* A user whose membership is new to the company works for no other.
LEMMA DirectStep ==
  ASSUME IInv, NEW c \in Companies, NEW u \in Users, NEW r \in Roles, NEW first \in BOOLEAN,
         NEW w \in Writes, w.role = Cell(<<c, u>>, r), w.works = Cell(<<c, u>>, TRUE),
         w.primary = Cell(<<c, u>>, first), DOMAIN w.account = {u}, DOMAIN w.platform = {},
         DOMAIN w.letter = {}, w.accepted = {}, w.locks = {},
         account[u] = "none", Finish(w)
  PROVE  IInv' /\ Good
<1>1. \A d \in Companies : role[<<d, u>>] = "none" /\ ~works[<<d, u>>]
  BY DEF IInv, Consistent, Tables, Memberships
<1>2. \A d \in Companies : ~works[d, u]
  BY <1>1
<1>3. ~Leads(c, u)
  BY <1>2 DEF Leads
<1> QED
  BY <1>2, <1>3, MemberStep

LEMMA CreateCompanyUserStep ==
  ASSUME IInv, NEW c \in Companies, NEW u \in Users, NEW r \in Roles,
         CreateCompanyUser(c, u, r)
  PROVE  IInv' /\ Good
<1>1. PICK w : w = Whole(c, u, r, TRUE, FALSE, "active")
  OBVIOUS
<1>2. IsWhole(w, c, u, r, TRUE, FALSE, "active")
  BY <1>1, MembershipWrites
<1> QED
  BY <1>1, <1>2, DirectStep DEF IsWhole, CreateCompanyUser, Direct, Whole

\* An invitation alone, or with the company it is for.
LEMMA InviteStep ==
  ASSUME IInv, NEW u \in Users, NEW at, NEW as, NEW base \in Writes,
         \/ at \in Companies /\ as \in Roles
         \/ at = None /\ as = "admin",
         DOMAIN base.role = {}, DOMAIN base.works = {}, DOMAIN base.primary = {},
         DOMAIN base.platform = {}, base.accepted = {}, base.locks = {},
         Invite(u, at, as, base)
  PROVE  IInv' /\ Good
<1>1. PICK i \in Invitations :
         /\ letter[i] = None
         /\ \A r \in Requests : held[r] # None => i \notin DOMAIN held[r].write.letter
         /\ Finish([base EXCEPT !.letter = Cell(i, [to |-> u, at |-> at, as |-> as]),
                                !.revoked = Pending(u, at)])
  BY DEF Invite
<1>2. PICK e, l : e = [to |-> u, at |-> at, as |-> as] /\ l = Cell(i, e)
  OBVIOUS
<1>3. PICK P : P = Pending(u, at)
  OBVIOUS
<1>4. l \in Partials(Invitations, Letters) /\ DOMAIN l = {i}
  <2>1. e \in Letters
    <3>1. CASE at \in Companies /\ as \in Roles
      BY <1>2, <3>1 DEF Letters
    <3>2. CASE at = None /\ as = "admin"
      BY <1>2, <3>2 DEF Letters
    <3> QED
      BY <3>1, <3>2
  <2>2. Cell(i, e) \in Partials(Invitations, Letters) /\ DOMAIN Cell(i, e) = {i}
    BY <2>1, CellPartial
  <2> QED
    BY <1>2, <2>2
<1>5. P \subseteq Invitations
  BY <1>3 DEF Pending
<1>6. PICK w : w = [base EXCEPT !.letter = l, !.revoked = P]
  OBVIOUS
<1>7. /\ w \in Writes /\ w.letter = l /\ DOMAIN w.role = {} /\ DOMAIN w.works = {}
      /\ DOMAIN w.primary = {} /\ DOMAIN w.platform = {} /\ w.accepted = {} /\ w.locks = {}
  BY <1>4, <1>5, <1>6 DEF Writes
<1>8. Finish(w)
  BY <1>1, <1>2, <1>3, <1>6
<1>9. \A r \in Requests : held[r] # None => DOMAIN held[r].write.letter \cap DOMAIN w.letter = {}
  BY <1>1, <1>4, <1>7
<1> QED
  BY <1>1, <1>4, <1>7, <1>8, <1>9, PlainStep

LEMMA IssueInvitationStep ==
  ASSUME IInv, NEW u \in Users, NEW at, NEW as, IssueInvitation(u, at, as),
         \/ at \in Companies /\ as \in Roles
         \/ at = None /\ as = "admin"
  PROVE  IInv' /\ Good
  BY NothingDecided, InviteStep DEF IssueInvitation

LEMMA CreateCompanyStep ==
  ASSUME IInv, NEW c \in Companies, NEW u \in Users, NEW s \in Statuses,
         CreateCompany(c, u, s)
  PROVE  IInv' /\ Good
<1>1. CASE /\ account[u] = "none"
           /\ Finish(WithCompany(Whole(c, u, "company_admin", TRUE, TRUE, "active"), c, s))
  <2>0. PICK r \in Roles : r = "company_admin"
    BY DEF Roles
  <2>1. PICK d : d = Whole(c, u, r, TRUE, TRUE, "active")
    OBVIOUS
  <2>2. IsWhole(d, c, u, r, TRUE, TRUE, "active")
    BY <2>0, <2>1, MembershipWrites
  <2>3. PICK w : w = WithCompany(d, c, s)
    OBVIOUS
  <2>4. IsWhole(w, c, u, r, TRUE, TRUE, "active")
    <3>1. d \in Writes
      BY <2>2 DEF IsWhole
    <3>2. /\ w \in Writes /\ w.role = d.role /\ w.works = d.works /\ w.primary = d.primary
          /\ w.account = d.account /\ w.platform = d.platform /\ w.letter = d.letter
          /\ w.accepted = d.accepted /\ w.revoked = d.revoked /\ w.setup = d.setup
          /\ w.locks = d.locks
      BY <2>3, <3>1, WithCompanyWrites
    <3> QED
      BY <2>2, <3>2 DEF IsWhole
  <2>5. Finish(w)
    BY <1>1, <2>0, <2>1, <2>3
  <2> QED
    BY <1>1, <2>4, <2>5, DirectStep DEF IsWhole
<1>2. CASE Invite(u, c, "company_admin", WithCompany(Nothing, c, s))
  <2>1. PICK w : w = WithCompany(Nothing, c, s)
    OBVIOUS
  <2>2. /\ w \in Writes /\ DOMAIN w.role = {} /\ DOMAIN w.works = {}
        /\ DOMAIN w.primary = {} /\ DOMAIN w.platform = {} /\ w.accepted = {} /\ w.locks = {}
    BY <2>1, NothingDecided, WithCompanyWrites
  <2>3. PICK r \in Roles : r = "company_admin"
    BY DEF Roles
  <2>4. Invite(u, c, r, w)
    BY <1>2, <2>1, <2>3
  <2> QED
    BY <2>2, <2>4, InviteStep
<1> QED
  BY <1>1, <1>2 DEF CreateCompany, WithCompany, Direct, Whole

LEMMA AccountWrites ==
  ASSUME NEW u \in Users, NEW to \in {"active", "inactive"}
  PROVE  /\ Cell(u, to) \in Partials(Users, {"active", "inactive"})
         /\ DOMAIN Cell(u, to) = {u}
<1> DEFINE T == {"active", "inactive"}
<1>1. to \in T
  OBVIOUS
<1> HIDE DEF T
<1>2. Cell(u, to) \in Partials(Users, T) /\ DOMAIN Cell(u, to) = {u}
  BY <1>1, CellPartial
<1> QED
  BY <1>2 DEF T

\* update_platform_admin() and deactivate_user()
LEMMA AccountStep ==
  ASSUME IInv, NEW u \in Users, NEW to \in {"active", "inactive"},
         Finish([Nothing EXCEPT !.account = Cell(u, to)])
  PROVE  IInv' /\ Good
<1>1. PICK ac : ac = Cell(u, to)
  OBVIOUS
<1>2. ac \in Partials(Users, {"active", "inactive"})
  BY <1>1, AccountWrites
<1>3. PICK w : w = [Nothing EXCEPT !.account = ac]
  OBVIOUS
<1>4. /\ w \in Writes /\ DOMAIN w.role = {} /\ DOMAIN w.works = {} /\ DOMAIN w.primary = {}
      /\ DOMAIN w.platform = {} /\ DOMAIN w.letter = {} /\ w.accepted = {} /\ w.locks = {}
  BY <1>2, <1>3, NothingDecided DEF Writes
<1> QED
  BY <1>1, <1>3, <1>4, PlainStep

\* set_company_status() and deactivate_tenant()
LEMMA StatusStep ==
  ASSUME IInv, NEW c \in Companies, NEW s \in Statuses,
         Finish([Nothing EXCEPT !.company = Cell(c, s)])
  PROVE  IInv' /\ Good
<1>1. PICK w : w = WithCompany(Nothing, c, s)
  OBVIOUS
<1>2. /\ w \in Writes /\ DOMAIN w.role = {} /\ DOMAIN w.works = {} /\ DOMAIN w.primary = {}
      /\ DOMAIN w.platform = {} /\ DOMAIN w.letter = {} /\ w.accepted = {} /\ w.locks = {}
  BY <1>1, NothingDecided, WithCompanyWrites
<1>3. Finish(w)
  BY <1>1 DEF WithCompany
<1> QED
  BY <1>2, <1>3, PlainStep

LEMMA RevokeStep ==
  ASSUME IInv, NEW at, RevokeInvitation(at)
  PROVE  IInv' /\ Good
<1>1. PICK i \in Invitations : Finish([Nothing EXCEPT !.revoked = {i}])
  BY DEF RevokeInvitation
<1>2. PICK w : w = [Nothing EXCEPT !.revoked = {i}]
  OBVIOUS
<1>3. /\ w \in Writes /\ DOMAIN w.role = {} /\ DOMAIN w.works = {} /\ DOMAIN w.primary = {}
      /\ DOMAIN w.platform = {} /\ DOMAIN w.letter = {} /\ w.accepted = {} /\ w.locks = {}
  BY <1>2, NothingDecided DEF Writes
<1> QED
  BY <1>1, <1>2, <1>3, PlainStep

LEMMA CreatePlatformAdminStep ==
  ASSUME IInv, NEW u \in Users, CreatePlatformAdmin(u)
  PROVE  IInv' /\ Good
<1>1. PICK ac, pl : ac = Cell(u, "active") /\ pl = Cell(u, "admin")
  OBVIOUS
<1>2. ac \in Partials(Users, {"active", "inactive"}) /\ DOMAIN ac = {u}
  BY <1>1, AccountWrites
<1>3. pl \in Partials(Users, {"admin", "owner"}) /\ DOMAIN pl = {u} /\ pl[u] = "admin"
  <2> DEFINE T == {"admin", "owner"}
  <2>1. PICK v \in T : v = "admin"
    OBVIOUS
  <2> HIDE DEF T
  <2>2. Cell(u, v) \in Partials(Users, T) /\ DOMAIN Cell(u, v) = {u} /\ Cell(u, v)[u] = v
    BY CellPartial
  <2> QED
    BY <1>1, <2>1, <2>2 DEF T
<1>4. PICK w : w = [Nothing EXCEPT !.account = ac, !.platform = pl]
  OBVIOUS
<1>5. /\ w \in Writes /\ DOMAIN w.role = {} /\ DOMAIN w.works = {} /\ DOMAIN w.primary = {}
      /\ w.account = ac /\ w.platform = pl /\ DOMAIN w.letter = {}
      /\ w.accepted = {} /\ w.locks = {}
  BY <1>2, <1>3, <1>4, NothingDecided DEF Writes
<1>6. account[u] = "none" /\ Finish(w)
  BY <1>1, <1>4 DEF CreatePlatformAdmin
<1>7. Right(w)
  BY <1>5, PlainRight
<1>8. u \in Adds(w).users
  BY <1>2, <1>5, <1>6 DEF Adds
<1>9. Lasting(w, Adds(w))
  BY <1>2, <1>3, <1>5, <1>8, AddsRows DEF Lasting, Demoted
<1>10. Decided(w)
  BY <1>3, <1>5, <1>7, <1>9 DEF Decided
<1> QED
  BY <1>6, <1>10, FinishStep

LEMMA PromoteStep ==
  ASSUME IInv, NEW u \in Users, PromotePlatformOwner(u)
  PROVE  IInv' /\ Good
<1> DEFINE D == {u} \cup {x \in Users : platform[x] = "owner"}
<1>1. PICK pl : pl = [v \in D |-> IF v = u THEN "owner" ELSE "admin"]
  OBVIOUS
<1>2. /\ pl \in Partials(Users, {"admin", "owner"}) /\ DOMAIN pl = D
      /\ pl[u] = "owner" /\ \A v \in D : pl[v] = "admin" => platform[v] = "owner"
  <2>1. pl \in [D -> {"admin", "owner"}] /\ D \in SUBSET Users
    BY <1>1
  <2> QED
    BY <1>1, <2>1 DEF Partials
<1>3. PICK w : w = [Nothing EXCEPT !.platform = pl]
  OBVIOUS
<1>4. /\ w \in Writes /\ DOMAIN w.role = {} /\ DOMAIN w.works = {} /\ DOMAIN w.primary = {}
      /\ DOMAIN w.account = {} /\ w.platform = pl /\ DOMAIN w.letter = {}
      /\ w.accepted = {} /\ w.locks = {}
  BY <1>2, <1>3, NothingDecided DEF Writes
<1>5. account[u] = "active" /\ Finish(w)
  BY <1>1, <1>3 DEF PromotePlatformOwner
<1>6. \A v \in D : account[v] # "none"
  BY <1>5 DEF IInv, Consistent
<1>7. \A v \in DOMAIN w.platform : Demoted(w, Adds(w), v)
  BY <1>2, <1>4 DEF Demoted
<1> HIDE DEF D
<1>8. Lasting(w, Adds(w))
  BY <1>2, <1>4, <1>6, <1>7, AddsRows DEF Lasting
<1>9. Decided(w)
  BY <1>2, <1>4, <1>8, PlainRight DEF Decided
<1> QED
  BY <1>5, <1>9, FinishStep

LEMMA TransferStep ==
  ASSUME IInv, NEW a \in Users, NEW c \in Companies, NEW u \in Users,
         TransferPrimaryAdmin(a, c, u)
  PROVE  IInv' /\ Good
<1>1. PICK current : current = {v \in Users : works[c, v] /\ primary[c, v]}
  OBVIOUS
<1>2. PICK D : D = {<<c, v>> : v \in current \cup {u}}
  OBVIOUS
<1>3. PICK pr : pr = [m \in D |-> m[2] = u]
  OBVIOUS
<1>4. D \in SUBSET Memberships /\ <<c, u>> \in D /\ \A m \in D : m[1] = c
  <2>1. current \subseteq Users
    BY <1>1
  <2>2. \A v \in current \cup {u} : <<c, v>> \in Memberships /\ <<c, v>>[1] = c
    BY <2>1 DEF Memberships
  <2> QED
    BY <1>2, <2>2
<1>5. pr \in Partials(Memberships, BOOLEAN) /\ DOMAIN pr = D /\ pr[<<c, u>>] = TRUE
  <2>1. pr \in [D -> BOOLEAN]
    BY <1>3
  <2> QED
    BY <1>3, <1>4, <2>1 DEF Partials
<1>6. PICK w : w = [Nothing EXCEPT !.primary = pr]
  OBVIOUS
<1>7. /\ w \in Writes /\ DOMAIN w.role = {} /\ DOMAIN w.works = {} /\ w.primary = pr
      /\ DOMAIN w.account = {} /\ DOMAIN w.platform = {} /\ DOMAIN w.letter = {}
      /\ w.accepted = {} /\ w.locks = {}
  BY <1>5, <1>6, NothingDecided DEF Writes
<1>8. Finish(w)
  BY <1>1, <1>2, <1>3, <1>6 DEF TransferPrimaryAdmin
<1>9. works[<<c, u>>] /\ role[<<c, u>>] = "company_admin"
  BY DEF TransferPrimaryAdmin
<1>10. /\ role \in [Memberships -> {"none"} \cup Roles]
       /\ works \in [Memberships -> BOOLEAN] /\ primary \in [Memberships -> BOOLEAN]
  BY DEF IInv, Tables
<1>11. PICK po : po = Over(w.primary, primary)
  OBVIOUS
<1>12. /\ Over(w.role, role) = role /\ Over(w.works, works) = works
       /\ po[<<c, u>>] = TRUE
       /\ \A d \in Companies \ {c}, v \in Users : po[<<d, v>>] = primary[<<d, v>>]
  <2>1. Over(w.role, role) = role /\ Over(w.works, works) = works
    BY <1>7, <1>10 DEF Over
  <2>2. \A m \in Memberships : po[m] = IF m \in D THEN pr[m] ELSE primary[m]
    BY <1>5, <1>7, <1>10, <1>11 DEF Over
  <2>3. \A d \in Companies \ {c}, v \in Users : <<d, v>> \in Memberships \ D
    BY <1>4 DEF Memberships
  <2>4. <<c, u>> \in Memberships
    BY DEF Memberships
  <2> QED
    BY <1>4, <1>5, <2>1, <2>2, <2>3, <2>4
<1>13. LeadsAfter(w, c, u)
  BY <1>9, <1>11, <1>12 DEF LeadsAfter
<1>14. \A d \in Companies \ {c}, v \in Users : Leads(d, v) => LeadsAfter(w, d, v)
  BY <1>11, <1>12 DEF LeadsAfter, Leads
<1>15. Right(w)
  <2>1. \A d \in Companies : Led(d) => \E v \in Users : LeadsAfter(w, d, v)
    BY <1>13, <1>14 DEF Led
  <2>2. \A v \in Users : ~(~Several(v) /\ SeveralAfter(w, v))
    BY <1>12 DEF Several, SeveralAfter
  <2> QED
    BY <1>7, <2>1, <2>2 DEF Right
<1>16. Lasting(w, Adds(w))
  BY <1>7, AddsRows DEF Lasting
<1> QED
  BY <1>7, <1>8, <1>15, <1>16, FinishStep DEF Decided

\* A company with its primary administrator, who may become the platform's owner.
LEMMA ProvisionStep ==
  ASSUME IInv, NEW c \in Companies, NEW u \in Users, NEW owner \in BOOLEAN,
         ProvisionTenant(c, u, owner)
  PROVE  IInv' /\ Good
<1>0. PICK r \in Roles : r = "company_admin"
  BY DEF Roles
<1>1. PICK d : d = Whole(c, u, r, TRUE, TRUE, "active")
  OBVIOUS
<1>2. IsWhole(d, c, u, r, TRUE, TRUE, "active")
  BY <1>0, <1>1, MembershipWrites
<1>3. PICK co : co = Cell(c, "active")
  OBVIOUS
<1>4. co \in Partials(Companies, Statuses)
  <2>1. PICK s \in Statuses : s = "active"
    BY AccountsAssumption
  <2> QED
    BY <1>3, <2>1, CellPartial
<1>5. PICK pl : pl = IF owner THEN Cell(u, "owner") ELSE Empty
  OBVIOUS
<1>6. /\ pl \in Partials(Users, {"admin", "owner"})
      /\ \A v \in DOMAIN pl : v = u /\ pl[v] = "owner"
  <2> DEFINE T == {"admin", "owner"}
  <2>1. PICK v \in T : v = "owner"
    OBVIOUS
  <2> HIDE DEF T
  <2>2. Cell(u, v) \in Partials(Users, T) /\ DOMAIN Cell(u, v) = {u} /\ Cell(u, v)[u] = v
    BY CellPartial
  <2>3. Empty \in Partials(Users, T) /\ DOMAIN Empty = {}
    BY EmptyPartial
  <2> QED
    BY <1>5, <2>1, <2>2, <2>3 DEF T
<1>7. PICK w : w = [d EXCEPT !.company = co, !.setup = TRUE, !.platform = pl]
  OBVIOUS
<1>8. /\ w \in Writes /\ w.role = Cell(<<c, u>>, r) /\ w.works = Cell(<<c, u>>, TRUE)
      /\ w.primary = Cell(<<c, u>>, TRUE) /\ DOMAIN w.account = {u} /\ w.platform = pl
      /\ DOMAIN w.letter = {} /\ w.accepted = {} /\ w.locks = {}
  BY <1>2, <1>4, <1>6, <1>7 DEF IsWhole, Writes
<1>9. Finish(w)
  BY <1>0, <1>1, <1>3, <1>5, <1>7 DEF ProvisionTenant, Direct, Whole
<1>10. works[c, u] \/ \A x \in Companies \ {c} : ~works[x, u]
  BY DEF ProvisionTenant
<1> QED
  BY <1>0, <1>1, <1>6, <1>8, <1>9, <1>10, MemberStep

\* What an invitation gives: a role of the platform's, or a membership.
LEMMA AcceptLasting ==
  ASSUME IInv, NEW i \in Invitations, letter[i] # None, i \notin accepted \cup revoked,
         ~Locked(i), NEW w \in Writes, DOMAIN w.account = {letter[i].to},
         \A m \in DOMAIN w.role : m[2] = letter[i].to, DOMAIN w.works \subseteq DOMAIN w.role,
         \A v \in DOMAIN w.platform :
            v = letter[i].to /\ letter[i].at = None /\ w.platform[v] = "admin",
         DOMAIN w.letter = {}, w.accepted = {i}, w.locks = {i},
         Right(w), Finish(w)
  PROVE  IInv' /\ Good
<1>1. \A v \in DOMAIN w.platform : Demoted(w, Adds(w), v)
  BY DEF Demoted
<1>2. Lasting(w, Adds(w))
  BY <1>1, AddsRows DEF Lasting
<1>3. \A v \in DOMAIN w.platform : w.platform[v] # "owner"
  OBVIOUS
<1> QED
  BY <1>2, <1>3, FinishStep DEF Decided

LEMMA AcceptStep ==
  ASSUME IInv, NEW i \in Invitations, AcceptInvitation(i)
  PROVE  IInv' /\ Good
<1>1. PICK u, c : u = letter[i].to /\ c = letter[i].at
  OBVIOUS
<1>2. letter[i] # None /\ ~Locked(i) /\ i \notin accepted \cup revoked
  BY DEF AcceptInvitation
<1>3. u \in Users /\ ((c \in Companies /\ letter[i].as \in Roles) \/ c = None)
  BY <1>1, <1>2 DEF IInv, Tables, Letters
<1>4. PICK ac : ac = Cell(u, "active")
  OBVIOUS
<1>5. ac \in Partials(Users, {"active", "inactive"}) /\ DOMAIN ac = {u}
  BY <1>3, <1>4, AccountWrites
<1>6. CASE c = None
  <2>1. PICK pl : pl = Cell(u, "admin")
    OBVIOUS
  <2>2. pl \in Partials(Users, {"admin", "owner"}) /\ DOMAIN pl = {u} /\ pl[u] = "admin"
    <3> DEFINE T == {"admin", "owner"}
    <3>1. PICK v \in T : v = "admin"
      OBVIOUS
    <3> HIDE DEF T
    <3>2. Cell(u, v) \in Partials(Users, T) /\ DOMAIN Cell(u, v) = {u} /\ Cell(u, v)[u] = v
      BY <1>3, CellPartial
    <3> QED
      BY <2>1, <3>1, <3>2 DEF T
  <2>3. PICK w : w = [Nothing EXCEPT !.platform = pl, !.account = ac,
                                     !.accepted = {i}, !.locks = {i}]
    OBVIOUS
  <2>4. /\ w \in Writes /\ DOMAIN w.role = {} /\ DOMAIN w.works = {} /\ DOMAIN w.primary = {}
        /\ w.account = ac /\ w.platform = pl /\ DOMAIN w.letter = {}
        /\ w.accepted = {i} /\ w.locks = {i}
    BY <1>5, <2>2, <2>3, NothingDecided DEF Writes
  <2>5. Finish(w)
    BY <1>1, <1>4, <1>6, <2>1, <2>3 DEF AcceptInvitation
  <2>6. Gives(w, i)
    <3>1. platform \in [Users -> {"none", "admin", "owner"}]
      BY DEF IInv, Tables
    <3>2. Over(w.platform, platform)[u] = "admin"
      BY <1>3, <2>2, <2>4, <3>1 DEF Over
    <3> QED
      BY <1>1, <1>6, <3>2 DEF Gives
  <2>7. Right(w)
    BY <2>4, <2>6, PlainRight
  <2> QED
    BY <1>1, <1>2, <1>5, <1>6, <2>2, <2>4, <2>5, <2>7, AcceptLasting
<1>7. CASE c # None
  <2>1. PICK r \in Roles : r = letter[i].as
    BY <1>3, <1>7
  <2>2. PICK first \in BOOLEAN :
           /\ Joins(c, u, r) = Membership(<<c, u>>, r, TRUE, first)
           /\ primary[<<c, u>>] /\ role[<<c, u>>] # "none" => first
    <3>1. role[<<c, u>>] # "none" => primary[<<c, u>>] \in BOOLEAN
      BY <1>3, <1>7 DEF IInv, Tables, Memberships
    <3> QED
      BY <3>1 DEF Joins
  <2>3. PICK d : d = Whole(c, u, r, TRUE, first, "active")
    OBVIOUS
  <2>4. IsWhole(d, c, u, r, TRUE, first, "active")
    BY <1>3, <1>7, <2>3, MembershipWrites
  <2>5. PICK w : w = [d EXCEPT !.accepted = {i}, !.locks = {i}]
    OBVIOUS
  <2>6. /\ w \in Writes /\ w.role = Cell(<<c, u>>, r) /\ w.works = Cell(<<c, u>>, TRUE)
        /\ w.primary = Cell(<<c, u>>, first) /\ DOMAIN w.account = {u}
        /\ DOMAIN w.platform = {} /\ DOMAIN w.letter = {}
        /\ w.accepted = {i} /\ w.locks = {i}
    BY <2>4, <2>5 DEF IsWhole, Writes
  <2>7. Finish(w)
    <3>1. Finish([Membership(<<c, u>>, r, TRUE, first)
                     EXCEPT !.account = Cell(u, "active"), !.accepted = {i}, !.locks = {i}])
      BY <1>1, <1>7, <2>1, <2>2 DEF AcceptInvitation
    <3> QED
      BY <2>3, <2>5, <3>1 DEF Whole
  <2>8. \A x \in Companies \ {c} : ~works[x, u]
    BY <1>1, <1>7 DEF AcceptInvitation
  <2>9. Gives(w, i)
    <3>1. role \in [Memberships -> {"none"} \cup Roles] /\ works \in [Memberships -> BOOLEAN]
      BY DEF IInv, Tables
    <3>2. <<c, u>> \in Memberships
      BY <1>3, <1>7 DEF Memberships
    <3>3. Over(w.role, role)[<<c, u>>] = r /\ Over(w.works, works)[<<c, u>>] = TRUE
      BY <2>6, <3>1, <3>2 DEF Over, Cell
    <3> QED
      BY <1>1, <1>7, <2>1, <3>3 DEF Gives
  <2>10. Leads(c, u) => \/ first /\ TRUE /\ r = "company_admin"
                        \/ \E x \in w.accepted : /\ letter[x].at = c /\ letter[x].to = u
                                                 /\ letter[x].as = "company_user"
    BY <1>1, <2>1, <2>2, <2>6 DEF Leads, Roles
  <2>11. Right(w)
    <3>1. \A x \in w.accepted : Gives(w, x)
      BY <2>6, <2>9
    <3>2. c \in Companies /\ u \in Users
      BY <1>3, <1>7
    <3> QED
      BY <2>6, <2>8, <2>10, <3>1, <3>2, MemberRight
  <2>12. /\ \A m \in DOMAIN w.role : m[2] = letter[i].to
         /\ DOMAIN w.works \subseteq DOMAIN w.role
    BY <1>1, <2>6 DEF Cell
  <2> QED
    BY <1>1, <1>2, <2>6, <2>7, <2>11, <2>12, AcceptLasting
<1> QED
  BY <1>6, <1>7

-----------------------------------------------------------------------------
(* The routers and the command line *)

LEMMA CompanyOperationsStep ==
  ASSUME IInv, NEW a \in Users, NEW c \in Companies, CompanyOperations(a, c)
  PROVE  IInv' /\ Good
<1>1. ASSUME NEW u \in Users, NEW r \in Roles, NEW on \in BOOLEAN,
             UpdateCompanyUser(a, c, u, r, on)
      PROVE  IInv' /\ Good
  <2>1. /\ role[<<c, u>>] # "none"
        /\ Finish(Whole(c, u, r, on, primary[<<c, u>>], Activity(on)))
    BY <1>1 DEF UpdateCompanyUser, Whole
  <2>2. Leads(c, u) => on /\ r = "company_admin"
    BY <1>1 DEF UpdateCompanyUser, Leads
  <2> QED
    BY <2>1, <2>2, UpdateStep
<1>2. ASSUME NEW u \in Users, NEW r \in Roles, IssueInvitation(u, c, r)
      PROVE  IInv' /\ Good
  BY <1>2, IssueInvitationStep
<1> QED
  BY <1>1, <1>2, TransferStep, RevokeStep DEF CompanyOperations

LEMMA PlatformRouterStep ==
  ASSUME IInv, NEW a \in Users, PlatformRouter(a)
  PROVE  IInv' /\ Good
<1>1. ASSUME NEW c \in Companies, NEW target \in Statuses, SetCompanyStatus(c, target)
      PROVE  IInv' /\ Good
  BY <1>1, StatusStep DEF SetCompanyStatus
<1>2. ASSUME NEW c \in Companies, NEW u \in Users, NEW s \in Statuses, CreateCompany(c, u, s)
      PROVE  IInv' /\ Good
  BY <1>2, CreateCompanyStep
<1> QED
  BY <1>1, <1>2, CreateCompanyUserStep DEF PlatformRouter

LEMMA AdminsRouterStep ==
  ASSUME IInv, NEW a \in Users, AdminsRouter(a)
  PROVE  IInv' /\ Good
<1>1. ASSUME NEW u \in Users, IssueInvitation(u, None, "admin") PROVE IInv' /\ Good
  BY <1>1, IssueInvitationStep
<1>2. ASSUME NEW u \in Users, NEW on \in BOOLEAN, UpdatePlatformAdmin(a, u, on)
      PROVE  IInv' /\ Good
  <2>1. PICK to \in {"active", "inactive"} : to = Activity(on)
    BY DEF Activity
  <2> QED
    BY <1>2, <2>1, AccountStep DEF UpdatePlatformAdmin
<1> QED
  BY <1>1, <1>2, CreatePlatformAdminStep DEF AdminsRouter

LEMMA ManagedUsersStep ==
  ASSUME IInv, NEW a \in Users, NEW c \in Companies, ManagedUsers(a, c)
  PROVE  IInv' /\ Good
<1>1. ASSUME NEW u \in Users, NEW r \in Roles, NEW on \in BOOLEAN,
             UpdateManagedUser(a, c, u, r, on)
      PROVE  IInv' /\ Good
  <2>1. /\ role[<<c, u>>] # "none"
        /\ Finish(Whole(c, u, r, on, primary[<<c, u>>], Activity(on)))
    BY <1>1 DEF UpdateManagedUser, Whole
  <2>2. ~Leads(c, u)
    BY <1>1 DEF UpdateManagedUser, Leads
  <2> QED
    BY <2>1, <2>2, UpdateStep
<1> QED
  BY <1>1, CreateCompanyUserStep DEF ManagedUsers

LEMMA CommandLineStep ==
  ASSUME IInv, CommandLine
  PROVE  IInv' /\ Good
<1>1. ASSUME NEW u \in Users, DeactivateUser(u) PROVE IInv' /\ Good
  <2>1. PICK to \in {"active", "inactive"} : to = "inactive"
    OBVIOUS
  <2> QED
    BY <1>1, <2>1, AccountStep DEF DeactivateUser
<1>2. ASSUME NEW c \in Companies, DeactivateTenant(c) PROVE IInv' /\ Good
  <2>1. PICK s \in Statuses : s = "suspended"
    BY AccountsAssumption
  <2> QED
    BY <1>2, <2>1, StatusStep DEF DeactivateTenant
<1>3. ASSUME NEW c \in Companies, NEW u \in Users, ProvisionTenant(c, u, FALSE)
      PROVE  IInv' /\ Good
  BY <1>3, ProvisionStep
<1> QED
  BY <1>1, <1>2, <1>3, CreatePlatformAdminStep, PromoteStep DEF CommandLine

-----------------------------------------------------------------------------
LEMMA InitIInv == Init => IInv
<1> SUFFICES ASSUME Init PROVE IInv
  OBVIOUS
<1>1. Tables /\ HeldInv
  BY DEF Init, Tables, HeldInv
<1>2. Consistent
  BY DEF Init, Consistent, Unique, Memberships
<1> QED
  BY <1>1, <1>2 DEF IInv

LEMMA NextStep == IInv /\ Next => IInv' /\ Good
<1> SUFFICES ASSUME IInv, Next PROVE IInv' /\ Good
  OBVIOUS
<1>1. ASSUME NEW a \in Users, NEW c \in Companies,
             CompanyUsersRouter(a, c) \/ OwnCompanyRouter(a, c)
      PROVE  IInv' /\ Good
  BY <1>1, CompanyOperationsStep DEF CompanyUsersRouter, OwnCompanyRouter
<1>2. ASSUME NEW c \in Companies, NEW u \in Users, CompleteInitialSetup(c, u)
      PROVE  IInv' /\ Good
  BY <1>2, ProvisionStep DEF CompleteInitialSetup
<1> QED
  BY <1>1, <1>2, PlatformRouterStep, AdminsRouterStep, ManagedUsersStep, AcceptStep,
     CommandLineStep, ResumeStep, DiesStep DEF Next

LEMMA StutterStep == IInv /\ UNCHANGED vars => IInv'
<1> SUFFICES ASSUME IInv, UNCHANGED vars PROVE IInv'
  OBVIOUS
<1>0. UNCHANGED tables /\ held' = held
  BY DEF vars
<1>1. ASSUME NEW q \in Requests, held'[q] # None
      PROVE  (/\ Lasting(held[q].write, held[q].adds)
              /\ held[q].overtaken = 0 => Right(held[q].write))'
  <2>1. PICK v, vadds : v = held'[q].write /\ vadds = held'[q].adds
    OBVIOUS
  <2>2. Lasting(v, vadds) /\ (held'[q].overtaken = 0 => Right(v))
    BY <1>0, <1>1, <2>1 DEF IInv, HeldInv
  <2>3. Lasting(v, vadds)' /\ (held'[q].overtaken = 0 => Right(v)')
    BY <1>0, <2>2, StillLasting
  <2> QED
    BY <2>1, <2>3
<1>2. HeldInv'
  BY <1>0, <1>1 DEF IInv, HeldInv
<1>3. Tables' /\ Consistent'
  BY <1>0 DEF IInv, Tables, Consistent, Unique, tables
<1> QED
  BY <1>2, <1>3 DEF IInv

LEMMA Invariant == Spec => []IInv
  BY InitIInv, NextStep, StutterStep, PTL DEF Spec

LEMMA EveryStepGood == Spec => [][Good]_vars
  BY Invariant, NextStep, PTL DEF Spec

\* Rows keep their types, whatever handlers overtake one another, for any numbers of
\* users, companies, invitations and handlers.
THEOREM TypesHold == Spec => []TypeOK
  BY Invariant, TypeFollows, PTL

\* An invitation is accepted once and while it is open, and gives what it offers
\* unless its acceptance was overtaken.
THEOREM InvitationsUsedOnce == Spec => InvitationsOnce
<1>1. Good => AcceptsOnce
  BY DEF Good
<1> QED
  BY <1>1, EveryStepGood, PTL DEF InvitationsOnce

\* A company loses its active primary administrator, and the platform its owner, by
\* nothing but an older invitation or, for a company, a handler that was overtaken.
THEOREM LeadersAreKept == Spec => LeadersStay
<1>1. Good => KeepsPrimary /\ KeepsOwner
  BY DEF Good
<1> QED
  BY <1>1, EveryStepGood, PTL DEF LeadersStay, PrimaryProtected, OwnerStays

\* Neither an invitation nor provisioning makes anyone work for two companies, unless
\* the handler was overtaken.
THEOREM OneCompanyEach == Spec => OneCompany
<1>1. Good => JoinsOne
  BY DEF Good
<1> QED
  BY <1>1, EveryStepGood, PTL DEF OneCompany

=============================================================================
