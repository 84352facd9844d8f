---------------------------- MODULE SessionsProofs ----------------------------
(***************************************************************************)
(* What holds of a user's sessions for any number of sessions, tokens and  *)
(* handlers that overtake one another, however often they do.              *)
(*                                                                         *)
(* A handler that waits carries a commit and what has been committed since *)
(* its reads.  Lasting says what stays true of the commit, Fits how far    *)
(* the rows it read may have changed: every session it does not end has    *)
(* begun since, every open token it does not revoke was sent since.        *)
(***************************************************************************)
EXTENDS Sessions, TLAPS

TokenWrites == UNION {[T -> {"open", "used", "revoked"}] : T \in SUBSET Tokens}

Writes ==
    [active : BOOLEAN \cup {None}, raised : BOOLEAN,
     joins : SUBSET Companies, leaves : SUBSET Companies,
     opens : SUBSET Companies, closes : SUBSET Companies,
     secret : {"kept", "new", "rehashed"}, read : 0..MaxSecrets, must : BOOLEAN \cup {None},
     ends : SUBSET Sessions,
     begins : SUBSET [id : Sessions, at : Companies \cup {None}, on : 0..MaxSecrets],
     token : TokenWrites, locks : SUBSET Tokens, lapsed : BOOLEAN]

Sinces == [commits : Nat, begun : SUBSET Sessions, cut : BOOLEAN, sent : SUBSET Tokens]

Waits == [write : Writes, since : Sinces]

Lasting(w) ==
    /\ w \in Writes
    /\ w.begins # {} => w.active = None
    /\ w.secret = "rehashed" => \A b \in w.begins : b.on = w.read
    /\ \A t \in w.locks : token[t] = "open"
    /\ Used(w) \subseteq w.locks
    /\ \A t, x \in Sent(w) : token[t] = "none" /\ t = x

Fits(w, since) ==
    /\ w.secret = "new" => Live \subseteq w.ends \cup since.begun
    /\ w.active = FALSE => w.lapsed \/ Live \subseteq w.ends \cup since.begun
    /\ ~since.cut => \A b \in w.begins : active /\ b.on = secret
    /\ w.secret = "rehashed" /\ since.cut => Live \ excused \subseteq since.begun
    /\ w.secret = "rehashed" /\ ~since.cut => w.read = secret
    /\ Sent(w) # {} => Open \subseteq DOMAIN w.token \cup since.sent

\* Two commits do not write one token: one waits for the lock of the other, or the
\* token is a row only one of them has made.
Apart(v, w) ==
    /\ v.locks \cap w.locks = {}
    /\ \A t \in DOMAIN v.token \cap DOMAIN w.token : token[t] # "none"

HeldInv ==
    /\ held \in [Requests -> Waits \cup {None}]
    /\ \A r \in Requests : held[r] # None =>
          Lasting(held[r].write) /\ Fits(held[r].write, held[r].since)
    /\ \A r, q \in Requests : r # q /\ held[r] # None /\ held[q] # None =>
          Apart(held[r].write, held[q].write)

UsedTokens ==
    \A t \in Tokens : uses[t] = 0 \/ (uses[t] = 1 /\ token[t] \in {"used", "revoked"})

IInv == TypeOK /\ SessionsEnd /\ UsedTokens /\ TokensOnce /\ HeldInv

\* What a handler has when it finishes.
Decided(w) ==
    /\ Lasting(w) /\ Fits(w, Untouched)
    /\ \A r \in Requests : held[r] # None => Apart(w, held[r].write)

-----------------------------------------------------------------------------
(* A commit *)

LEMMA StoresType ==
  ASSUME TypeOK, NEW w \in Writes, NEW since \in Sinces, Stores(w), Remembers(w, since)
  PROVE  TypeOK'
<1> USE SessionsAssumption DEF TypeOK, Writes
<1>1. secret' \in 0..MaxSecrets /\ newest' \in 0..MaxSecrets /\ outdated' \in BOOLEAN
  BY DEF Stores
<1>2. active' \in BOOLEAN /\ must' \in BOOLEAN
  BY DEF Stores, Value
<1>3. raised' \in BOOLEAN
  BY DEF Stores
<1>4. member' \subseteq Companies /\ usable' \subseteq Companies
  BY DEF Stores
<1>5. ASSUME NEW s \in Sessions
      PROVE  session'[s] \in [at : Companies \cup {None}, on : 0..MaxSecrets] \cup {None}
  <2>1. CASE s \in w.ends
    BY <2>1 DEF Stores
  <2>2. CASE s \notin w.ends /\ s \in Begun(w)
    <3> DEFINE b == CHOOSE b \in w.begins : b.id = s
    <3>1. b \in w.begins /\ b.at \in Companies \cup {None} /\ b.on \in 0..MaxSecrets
      BY <2>2 DEF Begun
    <3> HIDE DEF b
    <3>2. session'[s] = [at |-> b.at, on |-> IF w.secret = "new" THEN newest + 1 ELSE b.on]
      BY <2>2 DEF Stores, b
    <3>3. w.secret = "new" => newest' = newest + 1
      BY DEF Stores
    <3> QED
      BY <1>1, <3>1, <3>2, <3>3
  <2>3. CASE s \notin w.ends /\ s \notin Begun(w)
    BY <2>3 DEF Stores
  <2> QED
    BY <2>1, <2>2, <2>3
<1>6. session' \in [Sessions -> [at : Companies \cup {None}, on : 0..MaxSecrets] \cup {None}]
  BY <1>5 DEF Stores
<1>7. ASSUME NEW t \in Tokens PROVE token'[t] \in {"none", "open", "used", "revoked"}
  BY <1>7 DEF Stores, TokenWrites
<1>8. token' \in [Tokens -> {"none", "open", "used", "revoked"}]
  BY <1>7 DEF Stores
<1>9. uses' \in [Tokens -> Nat] /\ excused' \subseteq Sessions
  BY DEF Remembers
<1>10. doubled' \subseteq Tokens
  <2>1. Sent(w) \subseteq Tokens /\ since.sent \subseteq Tokens
    BY DEF Sent, TokenWrites, Sinces
  <2> QED
    BY <2>1 DEF Remembers
<1> QED
  BY <1>1, <1>2, <1>3, <1>4, <1>6, <1>8, <1>9, <1>10

\* A session after a commit that does not end it.
LEMMA StoresSession ==
  ASSUME TypeOK, NEW w \in Writes, Stores(w), NEW s \in Sessions, session'[s] # None
  PROVE  /\ s \notin w.ends
         /\ s \in Begun(w) => \E b \in w.begins :
               session'[s].on = IF w.secret = "new" THEN newest + 1 ELSE b.on
         /\ s \notin Begun(w) => session'[s] = session[s] /\ s \in Live
<1>1. s \notin w.ends
  BY DEF Stores
<1>2. ASSUME s \in Begun(w)
      PROVE  \E b \in w.begins :
               session'[s].on = IF w.secret = "new" THEN newest + 1 ELSE b.on
  <2> DEFINE b == CHOOSE b \in w.begins : b.id = s
  <2>1. b \in w.begins
    BY <1>2 DEF Begun
  <2> HIDE DEF b
  <2>2. session'[s] = [at |-> b.at, on |-> IF w.secret = "new" THEN newest + 1 ELSE b.on]
    BY <1>1, <1>2 DEF Stores, b
  <2> QED
    BY <2>1, <2>2
<1>3. s \notin Begun(w) => session'[s] = session[s] /\ s \in Live
  BY <1>1 DEF Stores, Live
<1> QED
  BY <1>1, <1>2, <1>3

\* No session is left by a commit that replaces the password or deactivates the user,
\* but the one it begins and those SessionsEnd makes an exception of.
LEMMA CutEnds ==
  ASSUME TypeOK, SessionsEnd, NEW w, NEW since \in Sinces, Lasting(w), Fits(w, since),
         Stores(w), Remembers(w, since), Cuts(w),
         NEW s \in Sessions, session'[s] # None, s \notin excused'
  PROVE  s \in Begun(w)
<1> USE DEF Lasting
<1> SUFFICES ASSUME s \notin Begun(w) PROVE FALSE
  OBVIOUS
<1>1. s \notin w.ends /\ s \in Live /\ s \notin excused /\ s \notin since.begun
  BY StoresSession DEF Remembers
<1>2. ~(w.lapsed /\ w.active = FALSE)
  BY DEF Remembers
<1>3. w.secret # "new" /\ w.active # FALSE
  BY <1>1, <1>2 DEF Fits
<1>4. secret' # secret
  BY <1>3 DEF Cuts
<1>5. w.secret = "rehashed" /\ secret' = w.read
  BY <1>3, <1>4 DEF Stores, Writes
<1> QED
  BY <1>1, <1>4, <1>5 DEF Fits

LEMMA StoresSessionsEnd ==
  ASSUME TypeOK, SessionsEnd, NEW w, NEW since \in Sinces, Lasting(w), Fits(w, since),
         Stores(w), Remembers(w, since)
  PROVE  SessionsEnd'
<1> USE SessionsAssumption DEF Lasting
<1> SUFFICES ASSUME NEW s \in Sessions, session'[s] # None, s \notin excused'
             PROVE  session'[s].on = secret' /\ active'
  BY DEF SessionsEnd, Live
<1>1. CASE s \in Begun(w)
  <2>1. ~since.cut
    BY <1>1 DEF Remembers
  <2>2. PICK b \in w.begins :
           session'[s].on = IF w.secret = "new" THEN newest + 1 ELSE b.on
    BY <1>1, StoresSession
  <2>3. active /\ b.on = secret /\ w.active = None
    BY <2>1 DEF Fits
  <2>4. active'
    BY <2>3 DEF Stores, Value
  <2>5. w.secret = "rehashed" => w.read = b.on
    BY <2>2
  <2> QED
    BY <2>2, <2>3, <2>4, <2>5 DEF Stores, Writes
<1>2. CASE s \notin Begun(w)
  <2>1. ~Cuts(w)
    BY <1>2, CutEnds
  <2>2. session'[s] = session[s] /\ s \in Live /\ s \notin excused
    BY <1>2, StoresSession DEF Remembers
  <2>3. session[s].on = secret /\ active
    BY <2>2 DEF SessionsEnd
  <2>4. secret' = secret /\ w.active # FALSE
    BY <2>1 DEF Cuts
  <2>5. active'
    BY <2>3, <2>4 DEF Stores, Value, Writes
  <2> QED
    BY <2>2, <2>3, <2>4, <2>5
<1> QED
  BY <1>1, <1>2

LEMMA StoresTokens ==
  ASSUME TypeOK, UsedTokens, TokensOnce, NEW w, NEW since \in Sinces,
         Lasting(w), Fits(w, since), Stores(w), Remembers(w, since)
  PROVE  UsedTokens' /\ TokensOnce'
<1> USE DEF Lasting
<1>1. ASSUME NEW t \in Tokens
      PROVE  (uses[t] = 0 \/ (uses[t] = 1 /\ token[t] \in {"used", "revoked"}))'
  <2>1. CASE t \in Used(w)
    <3>1. token[t] = "open" /\ token'[t] = "used"
      BY <2>1 DEF Used, Stores
    <3>2. uses[t] = 0
      BY <3>1 DEF UsedTokens
    <3>3. uses'[t] = 1
      BY <2>1, <3>2 DEF Remembers
    <3> QED
      BY <3>1, <3>3
  <2>2. CASE t \notin Used(w)
    <3>1. uses'[t] = uses[t]
      BY <2>2 DEF Remembers
    <3>2. CASE t \notin DOMAIN w.token
      BY <3>1, <3>2 DEF Stores, UsedTokens
    <3>3. CASE t \in Sent(w)
      <4>1. token[t] = "none"
        BY <3>3
      <4> QED
        BY <3>1, <4>1 DEF UsedTokens
    <3>4. CASE t \in DOMAIN w.token /\ t \notin Sent(w)
      <4>1. w.token[t] = "revoked"
        BY <2>2, <3>4 DEF Sent, Used, Writes, TokenWrites
      <4>2. token'[t] = "revoked"
        BY <3>4, <4>1 DEF Stores
      <4> QED
        BY <3>1, <4>2 DEF UsedTokens
    <3> QED
      BY <3>2, <3>3, <3>4
  <2> QED
    BY <2>1, <2>2
<1>2. UsedTokens'
  BY <1>1 DEF UsedTokens
<1>3. \A t \in Tokens : uses'[t] <= 1
  BY <1>1
<1>4. \A t \in Tokens : token'[t] = "open" => t \in Sent(w) \/ (token[t] = "open" /\ t \notin DOMAIN w.token)
  BY DEF Stores, Sent
<1>5. ASSUME NEW t \in Tokens, NEW x \in Tokens, t # x,
             token'[t] = "open", token'[x] = "open"
      PROVE  {t, x} \subseteq doubled'
  <2>1. CASE Sent(w) = {}
    <3>1. t \in Open /\ x \in Open
      BY <1>4, <1>5, <2>1 DEF Open
    <3> QED
      BY <1>5, <3>1 DEF TokensOnce, Remembers
  <2>2. CASE Sent(w) # {} /\ t \notin Sent(w) /\ x \notin Sent(w)
    <3>1. t \in Open /\ x \in Open
      BY <1>4, <1>5, <2>2 DEF Open
    <3> QED
      BY <1>5, <3>1 DEF TokensOnce, Remembers
  <2>3. \A y \in Tokens : token'[y] = "open" => y \in Sent(w) \/ (Sent(w) # {} => y \in since.sent)
    <3>1. \A y \in Tokens : token'[y] = "open" /\ y \notin Sent(w) => y \in Open /\ y \notin DOMAIN w.token
      BY <1>4 DEF Open
    <3> QED
      BY <3>1 DEF Fits
  <2>4. CASE Sent(w) # {} /\ (t \in since.sent \/ x \in since.sent)
    <3>1. doubled' = doubled \cup (Sent(w) \cup since.sent)
      BY <2>4 DEF Remembers
    <3> QED
      BY <1>5, <2>3, <2>4, <3>1
  <2>5. CASE t \in Sent(w) /\ x \in Sent(w)
    BY <1>5, <2>5
  <2> QED
    BY <1>5, <2>1, <2>2, <2>3, <2>4, <2>5
<1> QED
  BY <1>2, <1>3, <1>5 DEF TokensOnce, Open

\* Whoever waits beside a commit that does not write its tokens.
LEMMA StoresOthers ==
  ASSUME TypeOK, SessionsEnd, NEW w, NEW since \in Sinces, Lasting(w), Fits(w, since),
         Stores(w), Remembers(w, since),
         NEW h \in [Requests -> Waits \cup {None}],
         \A r \in Requests : h[r] # None =>
            Lasting(h[r].write) /\ Fits(h[r].write, h[r].since) /\ Apart(w, h[r].write),
         \A t \in DOMAIN w.token :
            ~ \E r \in Requests : h[r] # None /\ t \in h[r].write.locks,
         \A r, q \in Requests : r # q /\ h[r] # None /\ h[q] # None =>
            Apart(h[r].write, h[q].write),
         held' = Overtakes(h, w)
  PROVE  HeldInv'
<1> USE SessionsAssumption
<1>1. ASSUME NEW r \in Requests, h[r] # None
      PROVE  /\ held'[r] \in Waits
             /\ held'[r].write = h[r].write /\ held'[r].since = After(h[r].since, w)
  <2> DEFINE n == After(h[r].since, w)
  <2>1. h[r] \in Waits /\ h[r].since \in Sinces
    BY <1>1 DEF Waits
  <2>2. Begun(w) \subseteq Sessions /\ Sent(w) \subseteq Tokens /\ Cuts(w) \in BOOLEAN
    BY DEF Begun, Sent, Cuts, Lasting, Writes, TokenWrites
  <2>3. n \in Sinces
    BY <2>1, <2>2 DEF After, Sinces
  <2>4. held'[r] = [h[r] EXCEPT !.since = n]
    BY <1>1 DEF Overtakes
  <2> HIDE DEF n
  <2>5. held'[r] \in Waits /\ held'[r].write = h[r].write /\ held'[r].since = n
    BY <2>1, <2>3, <2>4 DEF Waits
  <2> QED
    BY <2>5 DEF n
<1>2. \A r \in Requests : h[r] = None => held'[r] = None
  BY DEF Overtakes
<1>3. held' \in [Requests -> Waits \cup {None}]
  <2>1. held' = [r \in Requests |-> held'[r]]
    BY DEF Overtakes
  <2> QED
    BY <1>1, <1>2, <2>1
<1>4. ASSUME NEW v, Lasting(v), Apart(w, v), DOMAIN w.token \cap v.locks = {}
      PROVE  Lasting(v)'
  <2>1. \A t \in v.locks : token'[t] = "open"
    <3>1. \A t \in v.locks : t \in Tokens /\ t \notin DOMAIN w.token /\ token[t] = "open"
      BY <1>4 DEF Lasting, Writes
    <3> QED
      BY <3>1 DEF Stores
  <2>2. \A t, x \in Sent(v) : token'[t] = "none" /\ t = x
    <3>1. \A t, x \in Sent(v) : t \in Tokens /\ t \in DOMAIN v.token /\ token[t] = "none" /\ t = x
      BY <1>4 DEF Lasting, Writes, TokenWrites, Sent
    <3>2. \A t \in Sent(v) : t \notin DOMAIN w.token
      BY <1>4, <3>1 DEF Apart
    <3> QED
      BY <3>1, <3>2 DEF Stores
  <2> QED
    BY <1>4, <2>1, <2>2 DEF Lasting, Used, Sent
<1>5. ASSUME NEW r \in Requests, h[r] # None
      PROVE  Fits(held[r].write, held[r].since)'
  <2> DEFINE v == h[r].write
             x == h[r].since
             n == held'[r].since
  <2>0. /\ held'[r].write = v /\ Lasting(v) /\ Fits(v, x) /\ n = After(x, w)
    BY <1>1, <1>5
  <2> HIDE DEF v, x, n
  <2>1. /\ n.begun = x.begun \cup Begun(w) /\ (n.cut <=> x.cut \/ Cuts(w))
        /\ n.sent = x.sent \cup Sent(w)
        /\ held'[r].write = v /\ Lasting(v) /\ Fits(v, x)
    BY <2>0 DEF After
  <2>2. Live' \subseteq Live \cup Begun(w)
    BY StoresSession DEF Live, Lasting
  <2>3. (Live \ excused)' \subseteq (Live \ excused) \cup Begun(w)
    <3>1. \A s \in Sessions : s \notin excused' /\ session'[s] # None /\ s \notin Begun(w) => s \notin excused
      BY DEF Remembers
    <3> QED
      BY <2>2, <3>1 DEF Live
  <2>4. Open' \subseteq Open \cup Sent(w)
    BY DEF Open, Stores, Sent
  <2>5. ~Cuts(w) => secret' = secret /\ (active => active')
    BY DEF Cuts, Stores, Value, Lasting, Writes
  <2>6. Cuts(w) => (Live \ excused)' \subseteq Begun(w)
    BY CutEnds DEF Live
  <2>7. /\ v.secret = "new" => Live' \subseteq v.ends \cup n.begun
        /\ v.active = FALSE => v.lapsed \/ Live' \subseteq v.ends \cup n.begun
    BY <2>1, <2>2 DEF Fits
  <2>8. ~n.cut => \A b \in v.begins : active' /\ b.on = secret'
    BY <2>1, <2>5 DEF Fits
  <2>9. v.secret = "rehashed" /\ n.cut => (Live \ excused)' \subseteq n.begun
    <3>1. CASE Cuts(w)
      BY <2>1, <2>6, <3>1
    <3>2. CASE ~Cuts(w)
      <4>1. n.cut => x.cut
        BY <2>1, <3>2
      <4> QED
        BY <2>1, <2>3, <4>1 DEF Fits
    <3> QED
      BY <3>1, <3>2
  <2>10. v.secret = "rehashed" /\ ~n.cut => v.read = secret'
    BY <2>1, <2>5 DEF Fits
  <2>11. Sent(v) # {} => Open' \subseteq DOMAIN v.token \cup n.sent
    BY <2>1, <2>4 DEF Fits
  <2> QED
    BY <2>1, <2>7, <2>8, <2>9, <2>10, <2>11 DEF Fits, Sent, n
<1>6. ASSUME NEW r \in Requests, h[r] # None PROVE Lasting(held[r].write)'
  <2>1. Lasting(h[r].write)'
    BY <1>4, <1>6
  <2> QED
    BY <1>1, <1>6, <2>1
<1>7. ASSUME NEW r \in Requests, NEW q \in Requests, r # q, h[r] # None, h[q] # None
      PROVE  Apart(held[r].write, held[q].write)'
  <2>1. Apart(h[r].write, h[q].write) /\ Lasting(h[r].write)
    BY <1>7
  <2>2. \A t \in Tokens : token'[t] = "none" => token[t] = "none"
    BY DEF Stores, Lasting, Writes, TokenWrites
  <2>3. DOMAIN h[r].write.token \subseteq Tokens
    BY <2>1 DEF Lasting, Writes, TokenWrites
  <2> QED
    BY <1>1, <1>7, <2>1, <2>2, <2>3 DEF Apart
<1> QED
  BY <1>2, <1>3, <1>5, <1>6, <1>7 DEF HeldInv

-----------------------------------------------------------------------------
(* A handler finishes, goes on, or dies *)

LEMMA UntouchedIsSince == Untouched \in Sinces
  BY DEF Untouched, Sinces

\* The columns left out are those that would be written as they are.
LEMMA ChangedDecided ==
  ASSUME TypeOK, NEW w, Decided(w)
  PROVE  Decided(Changed(w)) /\ Changed(w).locks = w.locks
<1> USE DEF Decided, Lasting
<1> DEFINE a == IF w.active = active THEN None ELSE w.active
           m == IF w.must = must THEN None ELSE w.must
           c == Changed(w)
<1>1. /\ c.active = a
      /\ c.secret = w.secret /\ c.read = w.read /\ c.ends = w.ends /\ c.begins = w.begins
      /\ c.token = w.token /\ c.locks = w.locks /\ c.lapsed = w.lapsed
      /\ c \in Writes
  <2>1. a \in BOOLEAN \cup {None} /\ m \in BOOLEAN \cup {None}
    BY DEF Writes
  <2>2. c = [w EXCEPT !.active = a, !.must = m,
                      !.joins = w.joins \ member, !.leaves = w.leaves \cap member,
                      !.opens = w.opens \ usable, !.closes = w.closes \cap usable]
    BY DEF Changed, Writes
  <2> HIDE DEF a, m, c
  <2> QED
    BY <2>1, <2>2 DEF Writes
<1>2. c.active = None \/ c.active = w.active
  BY <1>1
<1>3. None # FALSE
  BY SessionsAssumption
<1> HIDE DEF c, m, a
<1>4. Fits(c, Untouched)
  <2>1. Fits(w, Untouched)
    OBVIOUS
  <2> QED
    BY ONLY <1>1, <1>2, <1>3, <2>1 DEF Fits, Sent
<1>5. Lasting(c)
  <2>1. Lasting(w)
    OBVIOUS
  <2> QED
    BY ONLY <1>1, <1>2, <2>1 DEF Lasting, Used, Sent
<1>6. \A r \in Requests : held[r] # None => Apart(c, held[r].write)
  BY <1>1 DEF Apart
<1> QED
  BY <1>1, <1>4, <1>5, <1>6 DEF c

LEMMA UnchangedFits ==
  ASSUME UNCHANGED <<tables, history>>
  PROVE  /\ \A w : Lasting(w) => Lasting(w)'
         /\ \A w, since : Fits(w, since) => Fits(w, since)'
         /\ \A v, w : Apart(v, w) => Apart(v, w)'
  BY DEF tables, access, history, Lasting, Fits, Apart, Live, Open, Used, Sent

LEMMA UnchangedRest ==
  ASSUME UNCHANGED <<tables, history>>, TypeOK, SessionsEnd, UsedTokens, TokensOnce
  PROVE  TypeOK' /\ SessionsEnd' /\ UsedTokens' /\ TokensOnce'
  BY DEF tables, access, history, TypeOK, SessionsEnd, UsedTokens, TokensOnce, Live, Open

LEMMA FinishStep ==
  ASSUME IInv, NEW w, Decided(w), Finish(w)
  PROVE  IInv'
<1> USE DEF IInv, Decided
<1>1. CASE /\ ~ \E t \in DOMAIN w.token : Locked(t)
           /\ Stores(w) /\ Remembers(w, Untouched) /\ held' = Overtakes(held, w)
  <2>1. /\ \A r \in Requests : held[r] # None =>
              Lasting(held[r].write) /\ Fits(held[r].write, held[r].since) /\ Apart(w, held[r].write)
        /\ held \in [Requests -> Waits \cup {None}]
        /\ \A r, q \in Requests : r # q /\ held[r] # None /\ held[q] # None =>
              Apart(held[r].write, held[q].write)
    BY DEF HeldInv
  <2>2. \A t \in DOMAIN w.token : ~ \E r \in Requests : held[r] # None /\ t \in held[r].write.locks
    BY <1>1 DEF Locked
  <2>3. HeldInv'
    BY <1>1, <2>1, <2>2, UntouchedIsSince, StoresOthers
  <2>4. TypeOK'
    BY <1>1, StoresType, UntouchedIsSince DEF Lasting
  <2> QED
    BY <1>1, <2>3, <2>4, UntouchedIsSince, StoresSessionsEnd, StoresTokens
<1>2. ASSUME NEW r \in Requests, held[r] = None, UNCHANGED <<tables, history>>,
             held' = [held EXCEPT ![r] = [write |-> Changed(w), since |-> Untouched]]
      PROVE  IInv'
  <2> DEFINE c == Changed(w)
             n == [write |-> c, since |-> Untouched]
  <2>1. Decided(c)
    BY ChangedDecided
  <2>2. c \in Writes /\ Untouched \in Sinces
    BY <2>1, UntouchedIsSince DEF Lasting
  <2>3. n \in Waits /\ n.write = c /\ n.since = Untouched
    BY <2>2 DEF Waits
  <2> HIDE DEF c, n
  <2>4. /\ held' \in [Requests -> Waits \cup {None}]
        /\ held'[r] = n /\ \A q \in Requests \ {r} : held'[q] = held[q]
    BY <1>2, <2>3 DEF HeldInv, c, n
  <2>5. \A q \in Requests : held'[q] # None =>
           Lasting(held'[q].write) /\ Fits(held'[q].write, held'[q].since)
    BY <2>1, <2>3, <2>4 DEF HeldInv
  <2>6. \A q, p \in Requests : q # p /\ held'[q] # None /\ held'[p] # None =>
           Apart(held'[q].write, held'[p].write)
    <3>1. \A q \in Requests \ {r} : held[q] # None => Apart(c, held[q].write) /\ Apart(held[q].write, c)
      BY <2>1 DEF Apart
    <3> QED
      BY <2>3, <2>4, <3>1 DEF HeldInv
  <2>7. HeldInv'
    BY <1>2, <2>4, <2>5, <2>6, UnchangedFits DEF HeldInv
  <2> QED
    BY <1>2, <2>7, UnchangedRest
<1> QED
  BY <1>1, <1>2 DEF Finish

LEMMA ResumeStep ==
  ASSUME IInv, NEW r \in Requests, Resume(r)
  PROVE  IInv'
<1> USE DEF IInv
<1> DEFINE w == held[r].write
           x == held[r].since
           others == [held EXCEPT ![r] = None]
<1>1. /\ held[r] # None /\ Stores(w) /\ Remembers(w, x) /\ held' = Overtakes(others, w)
      /\ ~ \E t \in DOMAIN w.token \ w.locks : Locked(t)
  BY DEF Resume
<1>2. Lasting(w) /\ Fits(w, x) /\ x \in Sinces /\ w \in Writes
  BY <1>1 DEF HeldInv, Waits
<1>3. /\ others \in [Requests -> Waits \cup {None}]
      /\ others[r] = None /\ \A q \in Requests \ {r} : others[q] = held[q]
  BY DEF HeldInv
<1> HIDE DEF w, x, others
<1>4. \A q \in Requests : others[q] # None =>
         Lasting(others[q].write) /\ Fits(others[q].write, others[q].since) /\ Apart(w, others[q].write)
  BY <1>1, <1>3 DEF HeldInv, w
<1>5. \A t \in DOMAIN w.token :
         ~ \E q \in Requests : others[q] # None /\ t \in others[q].write.locks
  <2> SUFFICES ASSUME NEW t \in DOMAIN w.token, NEW q \in Requests, others[q] # None,
                      t \in others[q].write.locks
               PROVE  FALSE
    OBVIOUS
  <2>1. q # r /\ held[q] # None /\ t \in held[q].write.locks
    BY <1>3
  <2>2. t \notin w.locks
    BY <1>4 DEF Apart
  <2> QED
    BY <1>1, <2>1, <2>2 DEF Locked
<1>6. \A p, q \in Requests : p # q /\ others[p] # None /\ others[q] # None =>
         Apart(others[p].write, others[q].write)
  BY <1>3 DEF HeldInv
<1>7. HeldInv'
  BY <1>1, <1>2, <1>3, <1>4, <1>5, <1>6, StoresOthers
<1> QED
  BY <1>1, <1>2, <1>7, StoresType, StoresSessionsEnd, StoresTokens

LEMMA DiesStep ==
  ASSUME IInv, NEW r \in Requests, Dies(r)
  PROVE  IInv'
<1> USE DEF Dies, IInv
<1>1. /\ held' \in [Requests -> Waits \cup {None}]
      /\ \A q \in Requests : held'[q] # None => held'[q] = held[q] /\ held[q] # None
  BY DEF HeldInv
<1>2. HeldInv'
  BY <1>1, UnchangedFits DEF HeldInv
<1> QED
  BY <1>2, UnchangedRest

-----------------------------------------------------------------------------
(* What the handlers decide *)

LEMMA NothingWrites ==
  /\ Nothing \in Writes /\ Nothing.active = None /\ Nothing.secret = "kept"
  /\ Nothing.begins = {} /\ Nothing.ends = {} /\ Nothing.locks = {}
  /\ DOMAIN Nothing.token = {}
<1>1. [t \in {} |-> None] \in TokenWrites
  BY DEF TokenWrites
<1> QED
  BY <1>1, SessionsAssumption DEF Nothing, Writes

\* A commit that opens no session and leaves the tokens alone: its handler has ended the
\* sessions it saw, or leaves the password and the user's activity as they are.
LEMMA PlainDecided ==
  ASSUME NEW w \in Writes, w.begins = {}, w.locks = {}, DOMAIN w.token = {},
         \/ w.ends = Live /\ w.secret \in {"kept", "new"}
         \/ w.secret = "kept" /\ (w.active = FALSE => w.lapsed)
  PROVE  Decided(w)
  BY DEF Decided, Lasting, Fits, Apart, Used, Sent

LEMMA NewPasswordWrites ==
  ASSUME NEW temporary \in BOOLEAN
  PROVE  LET w == NewPassword(temporary)
         IN /\ w \in Writes /\ w.active = None /\ w.secret = "new" /\ w.begins = {}
            /\ w.ends = Live /\ w.locks = {} /\ DOMAIN w.token = {}
<1>1. Live \subseteq Sessions
  BY DEF Live
<1> QED
  BY <1>1, NothingWrites DEF NewPassword, Writes

\* A new session for the user, with the password read or the one set.
LEMMA SessionDecided ==
  ASSUME IInv, active, NEW w \in Writes, w.active = None, w.locks = {}, DOMAIN w.token = {},
         NEW s \in Sessions, NEW at \in Companies \cup {None},
         w.begins = {[id |-> s, at |-> at, on |-> secret]},
         \/ w.secret = "kept"
         \/ w.secret = "rehashed" /\ w.read = secret
         \/ w.secret = "new" /\ w.ends = Live
  PROVE  Decided(w)
<1>1. None # FALSE
  BY SessionsAssumption
<1>2. \A b \in w.begins : b.on = secret
  OBVIOUS
<1>3. Lasting(w)
  BY <1>2 DEF Lasting, Used, Sent
<1>4. Fits(w, Untouched)
  BY <1>1, <1>2 DEF Fits, Untouched, Sent
<1> QED
  BY <1>3, <1>4 DEF Decided, Apart

LEMMA NewSessionStep ==
  ASSUME IInv, active, NEW w \in Writes, w.active = None, w.locks = {}, DOMAIN w.token = {},
         NEW at \in Companies \cup {None}, NewSession(w, at),
         \/ w.secret = "kept"
         \/ w.secret = "rehashed" /\ w.read = secret
         \/ w.secret = "new" /\ w.ends = Live
  PROVE  IInv'
<1>1. PICK s \in Sessions :
         Finish([w EXCEPT !.begins = {[id |-> s, at |-> at, on |-> secret]}])
  BY DEF NewSession
<1> DEFINE bs == {[id |-> s, at |-> at, on |-> secret]}
           n == [w EXCEPT !.begins = bs]
<1>2. bs \subseteq [id : Sessions, at : Companies \cup {None}, on : 0..MaxSecrets]
  BY DEF IInv, TypeOK
<1>3. /\ n \in Writes /\ n.begins = bs /\ n.active = w.active /\ n.locks = w.locks
      /\ n.token = w.token /\ n.secret = w.secret /\ n.read = w.read /\ n.ends = w.ends
  <2> HIDE DEF bs
  <2> QED
    BY <1>2 DEF Writes
<1>4. Finish(n)
  BY <1>1
<1>5. n.begins = {[id |-> s, at |-> at, on |-> secret]}
  BY <1>3
<1> HIDE DEF bs, n
<1>6. Decided(n)
  BY <1>3, <1>5, SessionDecided
<1> QED
  BY <1>4, <1>6, FinishStep

\* Nothing but the end of some sessions.
LEMMA EndsWrites ==
  ASSUME NEW S \in SUBSET Sessions
  PROVE  LET w == [Nothing EXCEPT !.ends = S]
         IN /\ w \in Writes /\ w.active = None /\ w.secret = "kept"
            /\ w.begins = {} /\ w.ends = S /\ w.locks = {} /\ DOMAIN w.token = {}
  BY NothingWrites DEF Writes

LEMMA EndsStep ==
  ASSUME IInv, NEW s \in Sessions, Finish([Nothing EXCEPT !.ends = {s}])
  PROVE  IInv'
<1> DEFINE w == [Nothing EXCEPT !.ends = {s}]
<1>1. Decided(w)
  <2>1. {s} \in SUBSET Sessions
    OBVIOUS
  <2>2. /\ w \in Writes /\ w.active = None /\ w.secret = "kept"
        /\ w.begins = {} /\ w.locks = {} /\ DOMAIN w.token = {}
    BY <2>1, EndsWrites
  <2> HIDE DEF w
  <2> QED
    BY <2>2, PlainDecided, SessionsAssumption
<1> QED
  BY <1>1, FinishStep

LEMMA SessionRequestsStep ==
  ASSUME IInv, NEW s \in Sessions, SessionRequests(s)
  PROVE  IInv'
<1>1. Authentic(s) => active /\ session[s].at \in Companies \cup {None}
  BY DEF Authentic, HasAccess, IInv, TypeOK
<1>2. CASE Authenticate(s) \/ Logout(s)
  BY <1>2, EndsStep DEF Authenticate, Logout
<1>3. CASE ChangePassword(s)
  <2> DEFINE w == [Nothing EXCEPT !.secret = "new", !.must = FALSE, !.ends = Live]
  <2>1. /\ w \in Writes /\ w.active = None /\ w.locks = {} /\ DOMAIN w.token = {}
        /\ w.secret = "new" /\ w.ends = Live
    BY NothingWrites DEF Writes, Live
  <2>2. Authentic(s) /\ NewSession(w, session[s].at)
    BY <1>3 DEF ChangePassword
  <2> HIDE DEF w
  <2> QED
    BY <1>1, <2>1, <2>2, NewSessionStep
<1>4. ASSUME NEW at \in Companies \cup {None}, Authentic(s),
             NewSession([Nothing EXCEPT !.ends = {s}], at)
      PROVE  IInv'
  <2> DEFINE w == [Nothing EXCEPT !.ends = {s}]
  <2>1. {s} \in SUBSET Sessions
    OBVIOUS
  <2>2. /\ w \in Writes /\ w.active = None /\ w.secret = "kept"
        /\ w.locks = {} /\ DOMAIN w.token = {}
    BY <2>1, EndsWrites
  <2> HIDE DEF w
  <2>3. NewSession(w, at)
    BY <1>4 DEF w
  <2> QED
    BY <1>1, <1>4, <2>2, <2>3, NewSessionStep
<1> QED
  BY <1>2, <1>3, <1>4 DEF SessionRequests, SwitchContext, ClearContext

LEMMA ResetPasswordStep ==
  ASSUME IInv, NEW t \in Tokens, ResetPassword(t)
  PROVE  IInv'
<1>1. token[t] = "open" /\ ~Locked(t) /\ t \in Open
  BY DEF ResetPassword, Open
<1>2. ASSUME NEW w \in Writes, w.locks = {t}, DOMAIN w.token \subseteq Open,
             Used(w) \subseteq {t}, Sent(w) = {}, w.begins = {}, w.active = None,
             w.secret = "kept" \/ (w.secret = "new" /\ w.ends = Live), Finish(w)
      PROVE  IInv'
  <2>1. Lasting(w)
    BY <1>1, <1>2 DEF Lasting
  <2>2. Fits(w, Untouched)
    BY <1>2, SessionsAssumption DEF Fits, Untouched
  <2>3. \A r \in Requests : held[r] # None => Apart(w, held[r].write)
    BY <1>1, <1>2 DEF Apart, Locked, Open
  <2> QED
    BY <1>2, <2>1, <2>2, <2>3, FinishStep DEF Decided
<1>3. CASE active /\ HasLoginPath
  <2> DEFINE v == [x \in Open |-> IF x = t THEN "used" ELSE "revoked"]
             n == NewPassword(FALSE)
             w == [n EXCEPT !.token = v, !.locks = {t}]
  <2>1. v \in TokenWrites /\ DOMAIN v = Open
    <3>1. v \in [Open -> {"open", "used", "revoked"}]
      OBVIOUS
    <3>2. Open \subseteq Tokens
      BY DEF Open
    <3> QED
      BY <3>1, <3>2 DEF TokenWrites
  <2>2. \A x \in Open : v[x] # "open" /\ (v[x] = "used" => x = t)
    OBVIOUS
  <2>3. /\ n \in Writes /\ n.active = None /\ n.secret = "new" /\ n.begins = {}
        /\ n.ends = Live
    BY NewPasswordWrites
  <2>4. Finish(w)
    BY <1>1, <1>3 DEF ResetPassword
  <2> HIDE DEF v, n
  <2>5. /\ w \in Writes /\ w.active = None /\ w.secret = "new" /\ w.begins = {}
        /\ w.ends = Live /\ w.token = v /\ w.locks = {t}
    BY <2>1, <2>3 DEF Writes
  <2> HIDE DEF w
  <2>6. Used(w) \subseteq {t} /\ Sent(w) = {}
    BY <2>1, <2>2, <2>5 DEF Used, Sent
  <2> QED
    BY <1>2, <2>1, <2>4, <2>5, <2>6
<1>4. CASE ~(active /\ HasLoginPath)
  <2> DEFINE v == [x \in {t} |-> "revoked"]
             w == [Nothing EXCEPT !.token = v, !.locks = {t}]
  <2>1. v \in TokenWrites /\ DOMAIN v = {t} /\ v[t] = "revoked"
    <3>1. v \in [{t} -> {"open", "used", "revoked"}]
      OBVIOUS
    <3> QED
      BY <3>1 DEF TokenWrites
  <2>2. Finish(w)
    BY <1>1, <1>4 DEF ResetPassword
  <2> HIDE DEF v
  <2>3. /\ w \in Writes /\ w.active = None /\ w.secret = "kept" /\ w.begins = {}
        /\ w.token = v /\ w.locks = {t}
    BY <2>1, NothingWrites DEF Writes
  <2> HIDE DEF w
  <2>4. Used(w) \subseteq {t} /\ Sent(w) = {}
    BY <2>1, <2>3 DEF Used, Sent
  <2> QED
    BY <1>1, <1>2, <2>1, <2>2, <2>3, <2>4
<1> QED
  BY <1>3, <1>4

LEMMA RequestResetStep ==
  ASSUME IInv, RequestPasswordReset
  PROVE  IInv'
<1>1. PICK t \in Tokens, sent \in BOOLEAN :
         /\ token[t] = "none"
         /\ \A r \in Requests : held[r] # None => t \notin DOMAIN held[r].write.token
         /\ Finish([Nothing EXCEPT !.token =
              [x \in Open \cup {t} |-> IF x = t /\ sent THEN "open" ELSE "revoked"]])
  BY DEF RequestPasswordReset
<1> DEFINE v == [x \in Open \cup {t} |-> IF x = t /\ sent THEN "open" ELSE "revoked"]
           w == [Nothing EXCEPT !.token = v]
<1>2. /\ v \in TokenWrites /\ DOMAIN v = Open \cup {t}
      /\ \A x \in DOMAIN v : v[x] # "used" /\ (v[x] = "open" => x = t)
  <2>1. v \in [Open \cup {t} -> {"open", "used", "revoked"}]
    OBVIOUS
  <2>2. Open \cup {t} \in SUBSET Tokens
    BY DEF Open
  <2> QED
    BY <2>1, <2>2 DEF TokenWrites
<1>3. Finish(w)
  BY <1>1
<1> HIDE DEF v
<1>4. /\ w \in Writes /\ w.active = None /\ w.secret = "kept" /\ w.begins = {}
      /\ w.locks = {} /\ w.token = v
  BY <1>2, NothingWrites DEF Writes
<1> HIDE DEF w
<1>5. Used(w) = {} /\ Sent(w) \subseteq {t}
  BY <1>2, <1>4 DEF Used, Sent
<1>6. Lasting(w)
  BY <1>1, <1>4, <1>5 DEF Lasting
<1>7. Fits(w, Untouched)
  BY <1>2, <1>4, SessionsAssumption DEF Fits, Untouched
<1>8. \A r \in Requests : held[r] # None => Apart(w, held[r].write)
  BY <1>1, <1>2, <1>4 DEF Apart, Open
<1> QED
  BY <1>3, <1>6, <1>7, <1>8, FinishStep DEF Decided

LEMMA PublicRequestsStep ==
  ASSUME IInv, PublicRequests
  PROVE  IInv'
<1>1. CASE Login
  <2> DEFINE hash == IF outdated THEN "rehashed" ELSE "kept"
             w == [Nothing EXCEPT !.secret = hash, !.read = secret]
  <2>1. hash \in {"kept", "rehashed"} /\ secret \in 0..MaxSecrets
    BY DEF IInv, TypeOK
  <2>2. active /\ \E at \in Companies \cup {None} : NewSession(w, at)
    BY <1>1 DEF Login, IInv, TypeOK
  <2> HIDE DEF hash
  <2>3. /\ w \in Writes /\ w.active = None /\ w.locks = {} /\ DOMAIN w.token = {}
        /\ w.secret = hash /\ w.read = secret
    BY <2>1, NothingWrites DEF Writes
  <2> HIDE DEF w
  <2> QED
    BY <2>1, <2>2, <2>3, NewSessionStep
<1>2. ASSUME NEW c \in Companies \cup {None}, AcceptInvitation(c)
      PROVE  IInv'
  <2> DEFINE n == NewPassword(FALSE)
             w == [n EXCEPT !.joins = {c} \ {None}, !.raised = (c = None)]
  <2>1. /\ n \in Writes /\ n.active = None /\ n.secret = "new" /\ n.begins = {}
        /\ n.ends = Live /\ n.locks = {} /\ DOMAIN n.token = {}
    BY NewPasswordWrites
  <2>2. Finish(w)
    BY <1>2 DEF AcceptInvitation
  <2> HIDE DEF n
  <2>3. /\ w \in Writes /\ w.active = None /\ w.secret = "new" /\ w.begins = {}
        /\ w.ends = Live /\ w.locks = {} /\ DOMAIN w.token = {}
    BY <2>1 DEF Writes
  <2> HIDE DEF w
  <2>4. Decided(w)
    BY <2>3, PlainDecided, SessionsAssumption
  <2> QED
    BY <2>2, <2>4, FinishStep
<1> QED
  BY <1>1, <1>2, RequestResetStep, ResetPasswordStep DEF PublicRequests

LEMMA NewPasswordStep ==
  ASSUME IInv, NEW temporary \in BOOLEAN, Finish(NewPassword(temporary))
  PROVE  IInv'
<1> DEFINE w == NewPassword(temporary)
<1>1. /\ w \in Writes /\ w.active = None /\ w.secret = "new" /\ w.begins = {}
      /\ w.ends = Live /\ w.locks = {} /\ DOMAIN w.token = {}
  BY NewPasswordWrites
<1> HIDE DEF w
<1>2. Decided(w)
  BY <1>1, PlainDecided, SessionsAssumption
<1> QED
  BY <1>2, FinishStep DEF w

LEMMA ManagersRequestsStep ==
  ASSUME IInv, ManagersRequests
  PROVE  IInv'
<1> USE NothingWrites, PlainDecided, FinishStep, SessionsAssumption DEF Writes
<1>0. Live \in SUBSET Sessions /\ \A c : LiveAt(c) \in SUBSET Sessions
  BY DEF Live, LiveAt
<1>1. CASE SetPassword \/ ResetManagedUserPassword
  BY <1>1, NewPasswordStep DEF SetPassword, ResetManagedUserPassword
<1>2. CASE PromotePlatformOwner
  <2> DEFINE w == [Nothing EXCEPT !.raised = TRUE, !.ends = Live]
  <2>1. /\ w \in Writes /\ w.secret = "kept" /\ w.begins = {}
        /\ w.locks = {} /\ DOMAIN w.token = {} /\ w.ends = Live
    BY <1>0
  <2> QED
    BY <1>2, <2>1 DEF PromotePlatformOwner
<1>3. ASSUME NEW on \in BOOLEAN, Finish([Nothing EXCEPT !.active = on, !.ends = Live])
      PROVE  IInv'
  <2> DEFINE w == [Nothing EXCEPT !.active = on, !.ends = Live]
  <2>1. /\ w \in Writes /\ w.secret = "kept" /\ w.begins = {}
        /\ w.locks = {} /\ DOMAIN w.token = {} /\ w.ends = Live
    BY <1>0
  <2> QED
    BY <1>3, <2>1
<1>4. ASSUME NEW on \in BOOLEAN, NEW c \in Companies, NEW changing \in BOOLEAN,
             UpdateCompanyUser(c, on, changing)
      PROVE  IInv'
  <2> DEFINE E == IF (c \in member /\ ~on) \/ changing THEN Live ELSE {}
             J == IF on THEN {c} ELSE {}
             L == IF on THEN {} ELSE {c}
             l == ~on /\ c \notin member /\ ~changing
             w == [Nothing EXCEPT !.active = on, !.joins = J, !.leaves = L,
                      !.ends = E, !.lapsed = l]
  <2>1. E \in SUBSET Sessions /\ (~on => E = Live \/ l) /\ l \in BOOLEAN
    BY <1>0
  <2>2. J \in SUBSET Companies /\ L \in SUBSET Companies
    OBVIOUS
  <2>3. Finish(w)
    BY <1>4 DEF UpdateCompanyUser
  <2> HIDE DEF E, J, L, l
  <2>4. /\ w \in Writes /\ w.secret = "kept" /\ w.begins = {} /\ w.lapsed = l
        /\ w.locks = {} /\ DOMAIN w.token = {} /\ w.ends = E /\ w.active = on
    BY ONLY <2>1, <2>2, <1>4, NothingWrites DEF Writes
  <2> HIDE DEF w
  <2>5. w.ends = Live \/ (w.active = FALSE => w.lapsed)
    BY ONLY <2>1, <2>4
  <2>6. Decided(w)
    BY ONLY <2>4, <2>5, PlainDecided
  <2> QED
    BY <2>3, <2>6
<1>5. ASSUME NEW on \in BOOLEAN, NEW c \in Companies, UpdateManagedUser(c, on)
      PROVE  IInv'
  <2> DEFINE E == IF on THEN {} ELSE Live
             J == IF on THEN {c} ELSE {}
             L == IF on THEN {} ELSE {c}
             w == [Nothing EXCEPT !.active = on, !.joins = J, !.leaves = L, !.ends = E]
  <2>1. E \in SUBSET Sessions /\ (~on => E = Live)
    BY <1>0
  <2>2. J \in SUBSET Companies /\ L \in SUBSET Companies
    OBVIOUS
  <2>3. Finish(w)
    BY <1>5 DEF UpdateManagedUser
  <2> HIDE DEF E, J, L
  <2>4. /\ w \in Writes /\ w.secret = "kept" /\ w.begins = {}
        /\ w.locks = {} /\ DOMAIN w.token = {} /\ w.ends = E /\ w.active = on
    BY ONLY <2>1, <2>2, <1>5, NothingWrites DEF Writes
  <2> HIDE DEF w
  <2>5. w.ends = Live \/ (w.active = FALSE => w.lapsed)
    BY ONLY <2>1, <2>4
  <2>6. Decided(w)
    BY ONLY <2>4, <2>5, PlainDecided
  <2> QED
    BY <2>3, <2>6
<1>6. ASSUME NEW on \in BOOLEAN, NEW c \in Companies, SetCompanyStatus(c, on)
      PROVE  IInv'
  <2> DEFINE E == IF on THEN {} ELSE LiveAt(c)
             w == [Nothing EXCEPT !.opens = IF on THEN {c} ELSE {},
                      !.closes = IF on THEN {} ELSE {c}, !.ends = E]
  <2>1. /\ (IF on THEN {c} ELSE {}) \in SUBSET Companies
        /\ (IF on THEN {} ELSE {c}) \in SUBSET Companies /\ E \in SUBSET Sessions
    BY <1>0
  <2>2. Finish(w)
    BY <1>6 DEF SetCompanyStatus
  <2> HIDE DEF E
  <2>3. /\ w \in Writes /\ w.secret = "kept" /\ w.begins = {}
        /\ w.locks = {} /\ DOMAIN w.token = {} /\ w.active = None
    BY <2>1
  <2> QED
    BY <2>2, <2>3
<1>7. CASE DeactivateUser \/ \E on \in BOOLEAN : UpdatePlatformAdmin(on)
  BY ONLY <1>3, <1>7 DEF DeactivateUser, UpdatePlatformAdmin
<1> QED
  BY ONLY <1>1, <1>2, <1>4, <1>5, <1>6, <1>7, ManagersRequests DEF ManagersRequests

-----------------------------------------------------------------------------
LEMMA InitIInv == Init => IInv
  BY SessionsAssumption
  DEF Init, IInv, TypeOK, HeldInv, SessionsEnd, UsedTokens, TokensOnce, Live, Open

LEMMA NextStep == IInv /\ Next => IInv'
  BY SessionRequestsStep, PublicRequestsStep, ManagersRequestsStep, ResumeStep, DiesStep
  DEF Next

LEMMA StutterStep == IInv /\ UNCHANGED vars => IInv'
<1> SUFFICES ASSUME IInv, UNCHANGED vars PROVE IInv'
  OBVIOUS
<1>1. UNCHANGED <<tables, history>> /\ UNCHANGED held
  BY DEF vars
<1>2. HeldInv'
  BY <1>1, UnchangedFits DEF IInv, HeldInv
<1> QED
  BY <1>1, <1>2, UnchangedRest DEF IInv

LEMMA Invariant == Spec => []IInv
  BY InitIInv, NextStep, StutterStep, PTL DEF Spec

\* Rows keep their types for any numbers of sessions, tokens and handlers.
THEOREM TypesHold == Spec => []TypeOK
  BY Invariant, PTL DEF IInv

\* However handlers overtake one another: a session goes on with a replaced password or
\* for an inactive user only if the request that opened it and the one that replaced
\* the password or deactivated the user ran at the same time, or if the user was
\* deactivated through a membership that had ended.
THEOREM SessionsEndWithAccess == Spec => []SessionsEnd
  BY Invariant, PTL DEF IInv

\* A reset token sets a password at most once, and two are open only if the requests
\* that sent them ran at the same time, for any number of requests and of tokens.
THEOREM TokensUsedOnce == Spec => []TokensOnce
  BY Invariant, PTL DEF IInv

=============================================================================
