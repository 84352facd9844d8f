---------------------- MODULE BookingConversationProofs ----------------------
(***************************************************************************)
(* What BookingConversation keeps for every set of sessions, services,     *)
(* times and customers.  IInv is inductive.  Its TypeInv, AgreedInv and    *)
(* BookedInv hold however tools overlap; Safe and Tried hold while they    *)
(* run one at a time, beside the bootstrap: then a commit writes the whole *)
(* copy of the row but, perhaps, a state the bootstrap wrote               *)
(* (CommittedAlone), and Story says what the row is while a tool waits.    *)
(***************************************************************************)
EXTENDS BookingConversation, TLAPS

-----------------------------------------------------------------------------
(* Types *)

\* What a session knows while it waits.
Place(t, c) ==
    /\ t.at = "checking" => c.service \in Services /\ c.wish \in Times
    /\ t.at \in {"preparing", "prepared"} =>
        /\ t.summary \in Summaries
        /\ c.service = t.summary.service
        /\ c.time = t.summary.time
    /\ t.at = "final_check" =>
        /\ c.service \in Services
        /\ c.time \in Times
        /\ c.customer \in Customers
        /\ c.digest \in Summaries
    /\ t.at \in {"booking", "held", "settled"} =>
        /\ t.key \in Keys
        /\ c.service \in Services
        /\ c.slot \in Slots
        /\ c.customer \in Customers

Places == \A s \in Sessions : Place(tool[s], mine[s])

TypeInv == TypeOK /\ Places

\* A commit leaves a well-typed row.
LEMMA CommittedType ==
    ASSUME TypeOK, NEW s \in Sessions, NEW c \in Contexts, NEW signed
    PROVE  Committed(s, c, signed) \in Contexts
<1> DEFINE r == Committed(s, c, signed)
<1>1. ctx \in Contexts
  BY DEF TypeOK
<1>2. DOMAIN ctx = {"state", "service", "wish", "time", "slot", "offered", "customer",
                    "version", "digest", "booking"}
  BY <1>1 DEF Contexts
<1>3. \A f \in DOMAIN ctx : r[f] \in {c[f], ctx[f]}
  BY DEF Committed
<1>4. r = [state |-> r.state, service |-> r.service, wish |-> r.wish, time |-> r.time,
           slot |-> r.slot, offered |-> r.offered, customer |-> r.customer,
           version |-> r.version, digest |-> r.digest, booking |-> r.booking]
  BY <1>2 DEF Committed
<1>5. /\ r.state \in States
      /\ r.service \in Services \cup {None}
      /\ r.wish \in Times \cup {Window, None}
      /\ r.time \in Times \cup {None}
      /\ r.slot \in Slots \cup {None}
      /\ r.offered \in SUBSET Slots
      /\ r.customer \in Customers \cup {None}
      /\ r.version \in Nat
      /\ r.digest \in Summaries \cup {None}
      /\ r.booking \in Keys \cup {None}
  <2> HIDE DEF r
  <2> QED BY <1>1, <1>2, <1>3 DEF Contexts
<1> HIDE DEF r
<1>6. r \in Contexts
  BY <1>4, <1>5 DEF Contexts
<1> QED BY <1>6 DEF r

\* The columns of the sessions, apart from what the tools book and answer.
RowsTyped ==
    /\ ctx \in Contexts
    /\ mine \in [Sessions -> Contexts]
    /\ read \in [Sessions -> Contexts]
    /\ tool \in [Sessions -> Works]

LEMMA BlankType == Blank \in Contexts /\ Idle \in Works
BY DEF Blank, Contexts, Idle, Works, States, Allowed

LEMMA LeavesType ==
    ASSUME TypeInv, NEW s \in Sessions, NEW c \in Contexts, Leaves(s, c)
    PROVE  RowsTyped' /\ Places'
<1>1. RowsTyped'
  BY BlankType DEF TypeInv, TypeOK, Leaves, RowsTyped
<1>2. ASSUME NEW t \in Sessions PROVE Place(tool[t], mine[t])'
  <2>1. CASE t = s
    BY <2>1 DEF TypeInv, TypeOK, Leaves, Place, Idle
  <2>2. CASE t # s
    BY <2>2 DEF TypeInv, TypeOK, Leaves, Places, Place
  <2> QED BY <2>1, <2>2
<1> QED BY <1>1, <1>2 DEF Places

LEMMA DoneType ==
    ASSUME TypeInv, NEW s \in Sessions, NEW c \in Contexts, NEW signed, Done(s, c, signed)
    PROVE  RowsTyped' /\ Places'
BY CommittedType, LeavesType DEF Done, TypeInv

LEMMA FailsType ==
    ASSUME TypeInv, NEW s \in Sessions, Fails(s)
    PROVE  RowsTyped' /\ Places'
BY LeavesType DEF Fails, TypeInv, TypeOK

LEMMA EscapesType ==
    ASSUME TypeInv, NEW s \in Sessions, Escapes(s)
    PROVE  RowsTyped' /\ Places'
<1>1. mine[s] \in Contexts /\ ctx \in Contexts
  BY DEF TypeInv, TypeOK
<1>2. Committed(s, mine[s], {}) \in Contexts
  BY <1>1, CommittedType DEF TypeInv
<1> QED BY <1>1, <1>2, LeavesType DEF Escapes

LEMMA CommitsType ==
    ASSUME TypeInv, NEW s \in Sessions, NEW c \in Contexts, NEW signed, Commits(s, c, signed)
    PROVE  /\ ctx' \in Contexts
           /\ mine' \in [Sessions -> Contexts]
           /\ read' \in [Sessions -> Contexts]
BY CommittedType DEF Commits, TypeInv, TypeOK

\* A tool that waits remembers a key or a summary.
LEMMA WaitsType ==
    ASSUME tool \in [Sessions -> Works], NEW s \in Sessions, NEW place \in Awaits,
           NEW k \in Keys, NEW m \in Summaries
    PROVE  /\ [tool EXCEPT ![s].at = place] \in [Sessions -> Works]
           /\ [tool EXCEPT ![s].at = place, ![s].key = k] \in [Sessions -> Works]
           /\ [tool EXCEPT ![s].at = place, ![s].summary = m] \in [Sessions -> Works]
<1>1. [tool EXCEPT ![s].at = place] \in [Sessions -> Works]
  BY DEF Works
<1>2. [tool EXCEPT ![s].at = place, ![s].key = k] \in [Sessions -> Works]
  BY DEF Works
<1>3. [tool EXCEPT ![s].at = place, ![s].summary = m] \in [Sessions -> Works]
  BY DEF Works
<1> QED BY <1>1, <1>2, <1>3

\* A session that goes on leaves the other sessions where they are.
LEMMA OtherPlaces ==
    ASSUME TypeInv, NEW s \in Sessions, Place(tool[s], mine[s])',
           \A t \in Sessions \ {s} : tool'[t] = tool[t] /\ mine'[t] = mine[t]
    PROVE  Places'
<1>1. ASSUME NEW t \in Sessions PROVE Place(tool[t], mine[t])'
  <2>1. CASE t = s
    BY <2>1
  <2>2. CASE t # s
    BY <2>2 DEF TypeInv, Places, Place
  <2> QED BY <2>1, <2>2
<1> QED BY <1>1 DEF Places

-----------------------------------------------------------------------------
(* Every step keeps the types *)

LEMMA TypeInit == Init => TypeInv
<1> SUFFICES ASSUME Init PROVE TypeInv
  OBVIOUS
<1>1. TypeOK
  BY BlankType DEF Init, TypeOK, NoBoot, States, Allowed
<1>2. Places
  BY DEF Init, Places, Place, Idle
<1> QED BY <1>1, <1>2 DEF TypeInv

\* The rest of the variables, in a step of the tools that only moves the row.
LEMMA UnbookedType ==
    ASSUME TypeInv, RowsTyped' /\ Places', UNCHANGED unbooked
    PROVE  TypeInv'
BY DEF TypeInv, TypeOK, RowsTyped, unbooked, untouched

LEMMA StartType ==
    ASSUME TypeInv, NEW s \in Sessions, NEW t \in Tools, Start(s, t)
    PROVE  TypeInv'
<1>1. RowsTyped'
  BY DEF TypeInv, TypeOK, Start, Goes, RowsTyped, Works
<1>2. Place(tool[s], mine[s])'
  BY DEF TypeInv, TypeOK, Start, Goes, Place, Tools
<1>3. Places'
  BY <1>2, OtherPlaces DEF TypeInv, TypeOK, Start, Goes
<1> QED BY <1>1, <1>3, UnbookedType DEF Start

LEMMA ResolveType ==
    ASSUME TypeInv, NEW s \in Sessions,
           ResolveService(s) \/ ResolveDatetime(s) \/ SelectBookingSlot(s)
    PROVE  TypeInv'
<1>1. mine[s] \in Contexts
  BY DEF TypeInv, TypeOK
<1>2. UNCHANGED unbooked
  BY DEF ResolveService, ResolveDatetime, SelectBookingSlot
<1>3. CASE Fails(s)
  BY <1>2, <1>3, FailsType, UnbookedType
<1>4. CASE ResolveService(s) /\ ~Fails(s)
  <2>1. PICK service \in Services : Done(s, ServiceSelected(mine[s], service), {})
    BY <1>4 DEF ResolveService
  <2>2. ServiceSelected(mine[s], service) \in Contexts
    BY <1>1 DEF ServiceSelected, Contexts, States, Allowed
  <2> QED BY <1>2, <2>1, <2>2, DoneType, UnbookedType
<1>5. CASE ResolveDatetime(s) /\ ~Fails(s)
  <2> DEFINE c(w) == [mine[s] EXCEPT !.state = "date_time_resolving", !.wish = w,
                         !.time = None, !.slot = None, !.offered = {}, !.digest = None]
  <2>1. PICK w \in Times \cup {Window, None} : Done(s, c(w), {})
    BY <1>5 DEF ResolveDatetime
  <2>2. c(w) \in Contexts
    BY ZenonT(30), <1>1 DEF Contexts, States, Allowed
  <2> HIDE DEF c
  <2> QED BY <1>2, <2>1, <2>2, DoneType, UnbookedType
<1>6. CASE SelectBookingSlot(s) /\ ~Fails(s)
  <2> DEFINE c(x) == [mine[s] EXCEPT !.state = "slot_rechecking", !.slot = x,
                         !.time = x.time, !.digest = None]
  <2>1. PICK x \in mine[s].offered : Done(s, c(x), {})
    BY <1>6 DEF SelectBookingSlot
  <2>2. x \in Slots
    BY <1>1 DEF Contexts
  <2>3. c(x) \in Contexts
    BY ZenonT(30), <1>1, <2>2 DEF Contexts, States, Allowed, Slots
  <2> HIDE DEF c
  <2> QED BY <1>2, <2>1, <2>3, DoneType, UnbookedType
<1> QED BY <1>3, <1>4, <1>5, <1>6

LEMMA CheckType ==
    ASSUME TypeInv, NEW s \in Sessions,
           CheckAvailability(s) \/ CheckEnds(s) \/ CheckFails(s)
    PROVE  TypeInv'
<1>1. mine[s] \in Contexts /\ tool[s] \in Works /\ Place(tool[s], mine[s])
  BY DEF TypeInv, TypeOK, Places
<1>2. CASE CheckAvailability(s) /\ Fails(s)
  BY <1>2, FailsType, UnbookedType DEF CheckAvailability
<1>3. CASE CheckAvailability(s) /\ ~Fails(s)
  <2> DEFINE c == [mine[s] EXCEPT !.state = "availability_checking"]
  <2>1. /\ mine[s].service # None /\ mine[s].wish \in Times
        /\ Keeps(s, c) /\ Goes(s, "checking") /\ UNCHANGED unbooked
    BY <1>3 DEF CheckAvailability
  <2>2. c \in Contexts /\ c.service \in Services /\ c.wish \in Times
    BY <1>1, <2>1 DEF Contexts, States, Allowed
  <2> HIDE DEF c
  <2>3. RowsTyped'
    BY <2>1, <2>2 DEF TypeInv, TypeOK, RowsTyped, Keeps, Goes, Works, Awaits
  <2>4. Place(tool[s], mine[s])'
    BY <2>1, <2>2 DEF TypeInv, TypeOK, Keeps, Goes, Place
  <2>5. Places'
    BY <2>1, <2>4, OtherPlaces DEF TypeInv, TypeOK, Keeps, Goes
  <2> QED BY <2>1, <2>3, <2>5, UnbookedType
<1>4. CASE CheckEnds(s)
  <2> DEFINE e == [service |-> mine[s].service, time |-> mine[s].wish]
             a == [mine[s] EXCEPT !.state = "slot_available", !.time = e.time,
                     !.slot = e, !.offered = {e}]
             b(o) == [mine[s] EXCEPT !.state = "alternatives_available", !.time = None,
                     !.slot = None, !.offered = o]
  <2>1. mine[s].service \in Services /\ mine[s].wish \in Times
    BY <1>1, <1>4 DEF CheckEnds, At, Place
  <2>2. a \in Contexts
    <3>1. e \in Slots /\ e.time \in Times
      BY <2>1 DEF Slots
    <3> HIDE DEF e
    <3> QED BY ZenonT(30), <1>1, <3>1 DEF Contexts, States, Allowed
  <2>3. ASSUME NEW o \in SUBSET Slots PROVE b(o) \in Contexts
    BY <1>1 DEF Contexts, States, Allowed
  <2>4. \/ Done(s, a, {"slot", "offered"})
        \/ \E o \in SUBSET Slots : Done(s, b(o), {"offered"})
    BY <1>4 DEF CheckEnds, SlotsOf
  <2> HIDE DEF a, b
  <2> QED BY <1>4, <2>2, <2>3, <2>4, DoneType, UnbookedType DEF CheckEnds
<1>5. CASE CheckFails(s)
  <2>1. RowsTyped' /\ Places'
    BY <1>5, EscapesType DEF CheckFails
  <2> QED BY <1>5, <2>1 DEF CheckFails, TypeInv, TypeOK, RowsTyped, untouched
<1> QED BY <1>2, <1>3, <1>4, <1>5

LEMMA FindType ==
    ASSUME TypeInv, NEW s \in Sessions, FindAlternatives(s) \/ FindEnds(s)
    PROVE  TypeInv'
<1>1. mine[s] \in Contexts /\ UNCHANGED unbooked
  BY DEF TypeInv, TypeOK, FindAlternatives, FindEnds
<1>2. CASE Fails(s)
  BY <1>1, <1>2, FailsType, UnbookedType
<1>3. CASE FindAlternatives(s) /\ ~Fails(s)
  <2>1. Goes(s, "finding") /\ UNCHANGED <<ctx, mine, read>>
    BY <1>3 DEF FindAlternatives
  <2>2. RowsTyped'
    BY <2>1 DEF TypeInv, TypeOK, RowsTyped, Goes, Works, Awaits
  <2>3. Place(tool[s], mine[s])'
    BY <2>1 DEF TypeInv, TypeOK, Goes, Place
  <2>4. Places'
    BY <2>1, <2>3, OtherPlaces DEF TypeInv, TypeOK, Goes
  <2> QED BY <1>1, <2>2, <2>4, UnbookedType
<1>4. CASE FindEnds(s) /\ ~Fails(s)
  <2> DEFINE c(o) == [mine[s] EXCEPT !.state = "alternatives_available", !.offered = o]
  <2>1. PICK o \in SUBSET Slots : Done(s, c(o), {"offered"})
    BY <1>4 DEF FindEnds, SlotsOf
  <2>2. c(o) \in Contexts
    BY ZenonT(30), <1>1 DEF Contexts, States, Allowed
  <2> HIDE DEF c
  <2> QED BY <1>1, <2>1, <2>2, DoneType, UnbookedType
<1> QED BY <1>2, <1>3, <1>4

LEMMA FlushesType ==
    ASSUME TypeInv, NEW s \in Sessions, Flushes(s)
    PROVE  TypeInv'
<1>1. mine[s] \in Contexts /\ Place(tool[s], mine[s])
  BY DEF TypeInv, TypeOK, Places
<1>2. /\ tool[s].at \in {"checking", "preparing"}
      /\ Commits(s, mine[s], {})
      /\ Goes(s, IF tool[s].at = "preparing" THEN "prepared" ELSE "checking")
      /\ UNCHANGED unbooked
  BY DEF Flushes, At
<1>3. RowsTyped'
  <2>1. PICK place \in {"checking", "prepared"} : tool' = [tool EXCEPT ![s].at = place]
    BY <1>2 DEF Goes
  <2>2. tool \in [Sessions -> Works] /\ place \in Awaits
    BY DEF TypeInv, TypeOK, Awaits
  <2>3. tool' \in [Sessions -> Works]
    BY ONLY <2>1, <2>2, s \in Sessions DEF Works
  <2> QED BY <1>1, <1>2, <2>3, CommitsType DEF RowsTyped
<1>4. tool'[s] = [tool[s] EXCEPT !.at = tool'[s].at] /\ mine'[s] = mine[s]
  BY <1>2 DEF TypeInv, TypeOK, Goes, Commits
<1>5. tool'[s].at = (IF tool[s].at = "preparing" THEN "prepared" ELSE "checking")
  BY <1>2 DEF TypeInv, TypeOK, Goes, Works
<1>6. tool'[s].summary = tool[s].summary
  BY <1>2 DEF TypeInv, TypeOK, Goes, Works
<1>7. Place(tool[s], mine[s])'
  BY <1>1, <1>2, <1>4, <1>5, <1>6 DEF Place
<1>8. Places'
  BY <1>2, <1>7, OtherPlaces DEF TypeInv, TypeOK, Commits, Goes
<1> QED BY <1>2, <1>3, <1>8, UnbookedType

\* The copy of prepare() while it checks the slot again.
LEMMA RecheckingType ==
    ASSUME NEW c \in Contexts, NEW d \in Summaries \cup {None}
    PROVE  LET e == [c EXCEPT !.state = "slot_rechecking", !.digest = d] IN
           e \in Contexts /\ e.service = c.service /\ e.time = c.time
BY ZenonT(30) DEF Contexts, States, Allowed

LEMMA PrepareType ==
    ASSUME TypeInv, NEW s \in Sessions, Prepare(s)
    PROVE  TypeInv'
<1>1. ctx \in Contexts /\ mine[s] \in Contexts /\ UNCHANGED <<rows, agreed, broken, untouched>>
  BY DEF TypeInv, TypeOK, Prepare
<1>2. CASE Fails(s) /\ UNCHANGED told
  BY <1>1, <1>2, FailsType, UnbookedType DEF unbooked, untouched
<1>3. CASE ~(Fails(s) /\ UNCHANGED told)
  <2> DEFINE sum(x) == [service |-> mine[s].service, time |-> mine[s].time, customer |-> x]
             key(x) == [version |-> mine[s].version, summary |-> sum(x)]
             d == IF mine[s].state = "awaiting_confirmation" THEN None ELSE mine[s].digest
             c == [mine[s] EXCEPT !.state = "slot_rechecking", !.digest = d]
  <2>1. PICK x \in Customers :
          /\ mine[s].service # None /\ mine[s].time # None
          /\ \/ told' = told \cup {key(x)} /\ Leaves(s, ctx)
             \/ /\ Keeps(s, c)
                /\ tool' = [tool EXCEPT ![s].at = "preparing", ![s].summary = sum(x)]
                /\ UNCHANGED told
    BY <1>3 DEF Prepare
  <2>2. sum(x) \in Summaries /\ key(x) \in Keys
    BY <1>1, <2>1 DEF Contexts, Summaries, Keys
  <2>3. CASE told' = told \cup {key(x)} /\ Leaves(s, ctx)
    <3> HIDE DEF sum, key
    <3>1. RowsTyped' /\ Places'
      BY <1>1, <2>3, LeavesType
    <3>2. told' \subseteq Keys
      BY <2>2, <2>3 DEF TypeInv, TypeOK
    <3> QED BY <1>1, <3>1, <3>2 DEF TypeInv, TypeOK, RowsTyped, untouched
  <2>4. CASE /\ Keeps(s, c)
             /\ tool' = [tool EXCEPT ![s].at = "preparing", ![s].summary = sum(x)]
             /\ UNCHANGED told
    <3>1. c \in Contexts /\ c.service = mine[s].service /\ c.time = mine[s].time
      <4>1. d \in Summaries \cup {None}
        BY <1>1 DEF Contexts
      <4> HIDE DEF sum, key, d
      <4> QED BY <1>1, <4>1, RecheckingType
    <3>2. sum(x).service = mine[s].service /\ sum(x).time = mine[s].time
      OBVIOUS
    <3> HIDE DEF c, sum
    <3>3. RowsTyped'
      <4>1. tool' \in [Sessions -> Works]
        BY <2>2, <2>4, WaitsType DEF TypeInv, TypeOK, Awaits
      <4> QED BY <2>4, <3>1, <4>1 DEF TypeInv, TypeOK, RowsTyped, Keeps
    <3>4. tool[s] \in Works /\ mine'[s] = c
      BY <2>4 DEF TypeInv, TypeOK, Keeps
    <3>5. tool'[s].at = "preparing" /\ tool'[s].summary = sum(x)
      BY <2>4, <3>4 DEF TypeInv, TypeOK, Works
    <3>6. Place(tool[s], mine[s])'
      BY <2>2, <3>1, <3>2, <3>4, <3>5 DEF Place
    <3>7. Places'
      BY <2>4, <3>6, OtherPlaces DEF TypeInv, TypeOK, Keeps
    <3> QED BY <1>1, <2>4, <3>3, <3>7, UnbookedType DEF unbooked, untouched
  <2> QED BY <2>1, <2>3, <2>4
<1> QED BY <1>2, <1>3

LEMMA PreparedType ==
    ASSUME NEW c \in Contexts, NEW t \in Works, t.at = "prepared", Place(t, c)
    PROVE  /\ Prepared(c, t.summary) \in Contexts
           /\ [version |-> Prepared(c, t.summary).version,
               summary |-> Prepared(c, t.summary).digest] \in Keys
<1> DEFINE slot == [service |-> c.service, time |-> c.time]
           p == [c EXCEPT !.state = "awaiting_confirmation", !.customer = t.summary.customer,
                   !.slot = slot, !.version = c.version + 1, !.digest = t.summary]
<1>1. t.summary \in Summaries /\ c.service = t.summary.service /\ c.time = t.summary.time
  BY DEF Place
<1>2. slot \in Slots /\ t.summary.customer \in Customers
  BY <1>1 DEF Slots, Summaries
<1>3. c.version + 1 \in Nat
  BY DEF Contexts
<1>4. Prepared(c, t.summary) = p
  BY DEF Prepared
<1> HIDE DEF slot
<1>5. p \in Contexts /\ p.version = c.version + 1 /\ p.digest = t.summary
  BY ZenonT(30), <1>1, <1>2, <1>3 DEF Contexts, States, Allowed
<1> HIDE DEF p
<1> QED BY <1>1, <1>3, <1>4, <1>5 DEF Keys

LEMMA PrepareEndsType ==
    ASSUME TypeInv, NEW s \in Sessions, PrepareEnds(s) \/ PrepareFails(s)
    PROVE  TypeInv'
<1>1. mine[s] \in Contexts /\ tool[s] \in Works /\ Place(tool[s], mine[s])
  BY DEF TypeInv, TypeOK, Places
<1>2. CASE PrepareFails(s)
  BY <1>2, FailsType, UnbookedType DEF PrepareFails
<1>3. CASE PrepareEnds(s)
  <2> DEFINE p == Prepared(mine[s], tool[s].summary)
             c == [mine[s] EXCEPT !.state = "alternatives_available", !.slot = None,
                    !.time = None, !.digest = None]
  <2>1. \/ /\ Done(s, p, {"slot"})
           /\ told' = told \cup {[version |-> p.version, summary |-> p.digest]}
        \/ Done(s, c, {}) /\ UNCHANGED told
    BY <1>3 DEF PrepareEnds
  <2>2. p \in Contexts /\ [version |-> p.version, summary |-> p.digest] \in Keys
    BY <1>1, <1>3, PreparedType DEF PrepareEnds, At
  <2>3. c \in Contexts
    BY <1>1 DEF Contexts, States, Allowed
  <2> HIDE DEF p, c
  <2>4. RowsTyped' /\ Places'
    BY <2>1, <2>2, <2>3, DoneType
  <2>5. told' \subseteq Keys
    BY <2>1, <2>2 DEF TypeInv, TypeOK
  <2> QED BY <1>3, <2>4, <2>5 DEF PrepareEnds, TypeInv, TypeOK, RowsTyped, untouched
<1> QED BY <1>2, <1>3

LEMMA FinalizeType ==
    ASSUME TypeInv, NEW s \in Sessions, Finalize(s)
    PROVE  TypeInv'
<1>1. mine[s] \in Contexts /\ tool[s] \in Works /\ UNCHANGED <<rows, told, broken, untouched>>
  BY DEF TypeInv, TypeOK, Finalize
<1>2. CASE Fails(s) /\ UNCHANGED agreed
  BY <1>1, <1>2, FailsType, UnbookedType DEF unbooked, untouched
<1>3. CASE ~(Fails(s) /\ UNCHANGED agreed)
  <2> DEFINE a == [mine[s] EXCEPT !.state = "date_time_resolving"]
             b == [mine[s] EXCEPT !.state = "final_check_running"]
  <2>1. PICK v \in {k.version : k \in told} :
          /\ mine[s].digest # None
          /\ \/ Done(s, a, {}) /\ UNCHANGED agreed
             \/ /\ mine[s].service # None /\ mine[s].slot # None
                /\ mine[s].time # None /\ mine[s].customer # None
                /\ Commits(s, b, {}) /\ Goes(s, "final_check")
                /\ agreed' = agreed \cup {v}
    BY <1>3 DEF Finalize
  <2>2. a \in Contexts
    BY <1>1 DEF Contexts, States, Allowed
  <2>3. /\ b \in Contexts
        /\ b.service = mine[s].service /\ b.time = mine[s].time
        /\ b.customer = mine[s].customer /\ b.digest = mine[s].digest
    BY <1>1 DEF Contexts, States, Allowed
  <2> HIDE DEF a, b
  <2>4. CASE Done(s, a, {}) /\ UNCHANGED agreed
    BY <1>1, <2>2, <2>4, DoneType, UnbookedType DEF unbooked, untouched
  <2>5. CASE /\ mine[s].service # None /\ mine[s].slot # None
             /\ mine[s].time # None /\ mine[s].customer # None
             /\ Commits(s, b, {}) /\ Goes(s, "final_check")
             /\ agreed' = agreed \cup {v}
    <3>1. v \in Nat
      BY <2>1 DEF TypeInv, TypeOK, Keys
    <3>2. RowsTyped'
      BY <2>3, <2>5, CommitsType DEF TypeInv, TypeOK, RowsTyped, Goes, Works, Awaits
    <3>3. mine'[s] = b
      BY <2>5 DEF TypeInv, TypeOK, Commits
    <3>4. tool'[s].at = "final_check"
      BY <1>1, <2>5 DEF TypeInv, TypeOK, Goes, Works
    <3>5. Place(tool[s], mine[s])'
      BY <1>1, <2>1, <2>3, <2>5, <3>3, <3>4 DEF Place, Contexts
    <3>6. Places'
      BY <2>5, <3>5, OtherPlaces DEF TypeInv, TypeOK, Commits, Goes
    <3>7. agreed' \subseteq Nat
      BY <2>5, <3>1 DEF TypeInv, TypeOK
    <3> QED BY <1>1, <3>2, <3>6, <3>7 DEF TypeInv, TypeOK, RowsTyped, untouched
  <2> QED BY <2>1, <2>4, <2>5
<1> QED BY <1>2, <1>3

LEMMA FinalCheckType ==
    ASSUME TypeInv, NEW s \in Sessions, FinalCheck(s) \/ FinalCheckFails(s)
    PROVE  TypeInv'
<1>1. mine[s] \in Contexts /\ tool[s] \in Works /\ Place(tool[s], mine[s])
  BY DEF TypeInv, TypeOK, Places
<1>2. CASE FinalCheckFails(s)
  <2>1. RowsTyped' /\ Places'
    BY <1>2, FailsType DEF FinalCheckFails
  <2> QED BY <1>2, <2>1 DEF FinalCheckFails, TypeInv, TypeOK, RowsTyped, untouched
<1>3. CASE FinalCheck(s)
  <2> DEFINE k == [version |-> mine[s].version, summary |-> mine[s].digest]
             x == [service |-> mine[s].service, time |-> mine[s].time]
             c == [mine[s] EXCEPT !.slot = x]
             a == [mine[s] EXCEPT !.state = "alternatives_available"]
             b == [c EXCEPT !.state = "booking_confirmed", !.booking = k]
             r == [c EXCEPT !.state = "booking_running"]
  <2>1. \/ Done(s, a, {})
        \/ Done(s, b, {"slot"})
        \/ /\ Commits(s, r, {"slot"})
           /\ tool' = [tool EXCEPT ![s].at = "booking", ![s].key = k]
    BY <1>3 DEF FinalCheck
  <2>2. /\ mine[s].service \in Services /\ mine[s].time \in Times
        /\ mine[s].customer \in Customers /\ mine[s].digest \in Summaries
    BY <1>1, <1>3 DEF FinalCheck, At, Place
  <2>3. k \in Keys /\ x \in Slots
    BY <1>1, <2>2 DEF Keys, Slots, Contexts
  <2> HIDE DEF k, x
  <2>4. a \in Contexts
    BY <1>1 DEF Contexts, States, Allowed
  <2>5. b \in Contexts
    BY ZenonT(30), <1>1, <2>3 DEF Contexts, States, Allowed
  <2>6. /\ r \in Contexts /\ r.service = mine[s].service
        /\ r.customer = mine[s].customer /\ r.slot = x
    BY <1>1, <2>3 DEF Contexts, States, Allowed
  <2> HIDE DEF a, b, r
  <2>7. CASE Done(s, a, {}) \/ Done(s, b, {"slot"})
    BY <1>3, <2>4, <2>5, <2>7, DoneType, UnbookedType DEF FinalCheck
  <2>8. CASE /\ Commits(s, r, {"slot"})
             /\ tool' = [tool EXCEPT ![s].at = "booking", ![s].key = k]
    <3>1. RowsTyped'
      <4>1. tool' \in [Sessions -> Works]
        BY <2>2, <2>3, <2>8, WaitsType DEF TypeInv, TypeOK, Awaits
      <4> QED BY <2>6, <2>8, <4>1, CommitsType DEF RowsTyped
    <3>2. mine'[s] = r
      BY <2>8 DEF TypeInv, TypeOK, Commits
    <3>3. tool'[s].at = "booking" /\ tool'[s].key = k
      BY <1>1, <2>8 DEF TypeInv, TypeOK, Works
    <3>4. Place(tool[s], mine[s])'
      BY <2>2, <2>3, <2>6, <3>2, <3>3 DEF Place
    <3>5. Places'
      BY <2>8, <3>4, OtherPlaces DEF TypeInv, TypeOK, Commits
    <3> QED BY <1>3, <3>1, <3>5, UnbookedType DEF FinalCheck
  <2> QED BY <2>1, <2>7, <2>8
<1> QED BY <1>2, <1>3

\* A copy, or the row, in another state of the conversation.
LEMMA StateType ==
    ASSUME NEW c \in Contexts, NEW state \in States
    PROVE  [c EXCEPT !.state = state] \in Contexts
BY DEF Contexts

LEMMA BookedType ==
    ASSUME TypeInv, NEW s \in Sessions, tool[s].at \in {"booking", "settled"}
    PROVE  Booked(s, tool[s].key) \in Contexts
<1>1. mine[s] \in Contexts /\ tool[s].key \in Keys
  BY DEF TypeInv, TypeOK, Places, Place
<1> QED BY ZenonT(30), <1>1 DEF Booked, Contexts, States, Allowed

\* What create() does to its row, and to the place of its call.
LEMMA CreateRowsType ==
    ASSUME TypeInv, NEW s \in Sessions, CreateHolds(s) \/ CreateConfirms(s)
    PROVE  TypeInv'
<1>1. mine[s] \in Contexts /\ tool[s] \in Works /\ Place(tool[s], mine[s])
  BY DEF TypeInv, TypeOK, Places
<1>2. PICK place \in {"held", "settled"} :
        /\ Goes(s, place)
        /\ UNCHANGED <<ctx, mine, read, told, agreed, broken, untouched>>
  BY DEF CreateHolds, CreateConfirms
<1>3. tool[s].at \in {"booking", "held"}
  BY DEF CreateHolds, CreateConfirms, At
<1>4. RowsTyped'
  BY <1>2 DEF TypeInv, TypeOK, RowsTyped, Goes, Works, Awaits
<1>5. tool'[s].at = place /\ tool'[s].key = tool[s].key /\ mine'[s] = mine[s]
  BY <1>1, <1>2 DEF TypeInv, TypeOK, Goes, Works
<1>6. Place(tool[s], mine[s])'
  BY <1>1, <1>3, <1>5 DEF Place
<1>7. Places'
  BY <1>2, <1>6, OtherPlaces DEF TypeInv, TypeOK, Goes
<1>8. rows' \subseteq [key : Keys, made : Summaries,
                       status : {"pending", "confirmed", "failed"}]
  <2>1. CASE CreateHolds(s)
    <3>1. Material(mine[s]) \in Summaries /\ tool[s].key \in Keys
      BY <1>1, <1>3 DEF Place, Material, Summaries, Slots
    <3>2. [key |-> tool[s].key, made |-> Material(mine[s]), status |-> "pending"]
            \in [key : Keys, made : Summaries, status : {"pending", "confirmed", "failed"}]
      BY <3>1
    <3> QED BY <2>1, <3>2 DEF CreateHolds, TypeInv, TypeOK
  <2>2. CASE CreateConfirms(s)
    BY <2>2 DEF CreateConfirms, RowBecomes, TypeInv, TypeOK
  <2> QED BY <2>1, <2>2
<1> QED BY <1>2, <1>4, <1>7, <1>8 DEF TypeInv, TypeOK, RowsTyped, untouched

LEMMA CreateEndsType ==
    ASSUME TypeInv, NEW s \in Sessions,
           CreateRefuses(s) \/ CreateFinds(s) \/ CreateFails(s) \/ FinalizeEnds(s)
    PROVE  TypeInv'
<1>1. ctx \in Contexts /\ mine[s] \in Contexts /\ tool[s] \in Works
  BY DEF TypeInv, TypeOK
<1>2. CASE CreateRefuses(s)
  <2>1. PICK state \in {"alternatives_available", "booking_failed"} :
          \/ Done(s, [mine[s] EXCEPT !.state = state], {})
          \/ Leaves(s, [ctx EXCEPT !.state = state])
          \/ Fails(s)
    BY <1>2 DEF CreateRefuses
  <2>2. state \in States
    BY DEF States, Allowed
  <2>3. RowsTyped' /\ Places'
    BY <1>1, <2>1, <2>2, StateType, DoneType, LeavesType, FailsType
  <2> QED BY <1>2, <2>3, UnbookedType DEF CreateRefuses
<1>3. CASE CreateFinds(s) \/ FinalizeEnds(s)
  <2>1. Done(s, Booked(s, tool[s].key), {}) /\ UNCHANGED unbooked
    BY <1>3 DEF CreateFinds, FinalizeEnds
  <2>2. Booked(s, tool[s].key) \in Contexts
    BY <1>3, BookedType DEF CreateFinds, FinalizeEnds, At
  <2> QED BY <2>1, <2>2, DoneType, UnbookedType
<1>4. CASE CreateFails(s)
  <2>1. [mine[s] EXCEPT !.state = "booking_failed"] \in Contexts
    BY <1>1, StateType DEF States, Allowed
  <2>2. RowsTyped' /\ Places'
    BY <1>4, <2>1, DoneType DEF CreateFails
  <2>3. rows' \subseteq [key : Keys, made : Summaries,
                         status : {"pending", "confirmed", "failed"}]
    BY <1>4 DEF CreateFails, RowBecomes, TypeInv, TypeOK
  <2> QED BY <1>4, <2>2, <2>3 DEF CreateFails, TypeInv, TypeOK, RowsTyped, untouched
<1> QED BY <1>2, <1>3, <1>4

\* The bootstrap writes the state, and nothing else.
LEMMA LoadsOnly ==
    ASSUME TypeInv, Loads
    PROVE  /\ UNCHANGED <<channel, mine, read, tool, rows, told, agreed, broken>>
           /\ boot' \in [at : {"idle", "started", "loading"}, state : States]
           /\ \/ UNCHANGED <<ctx, reopened>>
              \/ \E state \in {"catalog_loading", "ready", "service_required"} : Overwrites(state)
<1>1. /\ boot \in [at : {"idle", "started", "loading"}, state : States] /\ ctx.state \in States
      /\ "catalog_loading" \in States /\ "idle" \in States
  BY DEF TypeInv, TypeOK, Contexts, States, Allowed
<1>2. CASE BootstrapStarts
  BY <1>1, <1>2 DEF BootstrapStarts
<1>3. CASE Bootstrap
  BY <1>1, <1>3 DEF Bootstrap
<1>4. CASE BootstrapEnds
  BY <1>1, <1>4 DEF BootstrapEnds, NoBoot
<1>5. CASE BootstrapFails
  BY <1>1, <1>5 DEF BootstrapFails, NoBoot
<1> QED BY <1>2, <1>3, <1>4, <1>5 DEF Loads

LEMMA LoadsType ==
    ASSUME TypeInv, Loads
    PROVE  TypeInv'
<1>1. ctx \in Contexts /\ reopened \in BOOLEAN
  BY DEF TypeInv, TypeOK
<1>2. ctx' \in Contexts /\ reopened' \in BOOLEAN
  <2>1. CASE UNCHANGED <<ctx, reopened>>
    BY <1>1, <2>1
  <2>2. ASSUME NEW state \in {"catalog_loading", "ready", "service_required"}, Overwrites(state)
        PROVE  ctx' \in Contexts /\ reopened' \in BOOLEAN
    <3>1. state \in States
      BY DEF States, Allowed
    <3> QED BY <1>1, <2>2, <3>1, StateType DEF Overwrites
  <2> QED BY <2>1, <2>2, LoadsOnly
<1> QED BY <1>2, LoadsOnly DEF TypeInv, TypeOK, Places, Place

LEMMA TypeStep == TypeInv /\ [Next]_vars => TypeInv'
<1> SUFFICES ASSUME TypeInv, [Next]_vars PROVE TypeInv'
  OBVIOUS
<1>1. CASE UNCHANGED vars
  BY <1>1 DEF vars, TypeInv, TypeOK, Places, Place
<1>2. ASSUME NEW s \in Sessions, Breaks(s) PROVE TypeInv'
  <2>1. RowsTyped' /\ Places'
    BY <1>2, FailsType DEF Breaks
  <2> QED BY <1>2, <2>1 DEF Breaks, TypeInv, TypeOK, RowsTyped, untouched
<1> QED BY <1>1, <1>2, StartType, ResolveType, CheckType, FindType, FlushesType, PrepareType,
        PrepareEndsType, FinalizeType, FinalCheckType, CreateRowsType, CreateEndsType,
        LoadsType DEF Next

\* The columns of the conversation, the copies of the sessions and the places of
\* the tools keep their types.
THEOREM TypeCorrect == Spec => []TypeOK
<1>1. TypeInv => TypeOK
  BY DEF TypeInv
<1> QED BY <1>1, TypeInit, TypeStep, PTL DEF Spec

-----------------------------------------------------------------------------
(* Tools that run one at a time *)

\* What the bootstrap writes.
Loaded == {"catalog_loading", "ready", "service_required"}

\* The row holds a copy, but for a state the bootstrap may have written since.
Kept(row, c) ==
    /\ row.service = c.service /\ row.wish = c.wish /\ row.time = c.time
    /\ row.slot = c.slot /\ row.offered = c.offered /\ row.customer = c.customer
    /\ row.version = c.version /\ row.digest = c.digest /\ row.booking = c.booking
    /\ row.state \in {c.state} \cup Loaded

\* The running tool read the row as it is, and no other tool runs.
Alone ==
    \A s \in Sessions : tool[s].at # "idle" =>
        Kept(ctx, read[s]) /\ \A t \in Sessions \ {s} : tool[t].at = "idle"

NoneConfirmed == \A r \in rows : r.status # "confirmed"

Key(c) == [version |-> c.version, summary |-> c.digest]
Summary(c) == [service |-> c.service, time |-> c.time, customer |-> c.customer]

\* A summary that awaits its confirmation was told.
Awaited(c) ==
    c.state = "awaiting_confirmation" => Key(c) \in told /\ c.digest = Summary(c)

\* What the row is while a tool waits.
Story(s) ==
    /\ tool[s].at # "idle" => mine[s].version = ctx.version
    /\ tool[s].at \in Tools \cup {"finding"} => mine[s] = read[s] /\ Awaited(read[s])
    /\ tool[s].at = "checking" =>
        /\ mine[s].state = "availability_checking"
        /\ read[s].state \in {"date_time_resolving", "availability_checking"}
    /\ tool[s].at = "finding" =>
        read[s].state \in {"date_time_resolving", "alternatives_available"}
    /\ tool[s].at \in {"preparing", "prepared"} =>
        /\ mine[s].state = "slot_rechecking" /\ mine[s].version < MaxVersion
        /\ read[s].state \in {"awaiting_confirmation", "slot_available", "slot_rechecking"}
    /\ tool[s].at = "final_check" =>
        /\ read[s].state = "final_check_running"
        /\ Key(mine[s]) \in told
        /\ mine[s].digest = Summary(mine[s])
    /\ tool[s].at \in {"booking", "held", "settled"} =>
        /\ read[s].state = "booking_running"
        /\ ctx.state = "booking_running" \/ reopened
        /\ tool[s].key \in told /\ tool[s].key.version = ctx.version
        /\ tool[s].key.summary = Material(mine[s])
    /\ tool[s].at \in {"booking", "held"} => NoneConfirmed \/ reopened
    /\ tool[s].at = "held" => Row(tool[s].key, "pending")
    /\ tool[s].at = "settled" => Row(tool[s].key, "confirmed")

\* A summary that awaits its confirmation is the one that was told last.
Summed ==
    /\ Awaited(ctx)
    /\ \A k \in told : k.version <= ctx.version
    /\ VersionNamesSummary

\* What was booked is what was told; a key has one row, a call one booking as long
\* as the bootstrap has not written over it.
BookedRows ==
    /\ \A r \in rows : r.key \in told /\ r.made = r.key.summary
    /\ \A q, r \in rows : q.key = r.key => q = r
    /\ reopened \/ \A q, r \in rows : q.status = "confirmed" /\ r.status = "confirmed" => q = r
    /\ NoneConfirmed \/ ctx.state \in {"booking_running", "booking_confirmed"} \/ reopened
    /\ ctx.state = "booking_confirmed" => Row(ctx.booking, "confirmed")

\* A state no tool accepts belongs to a tool that runs, or to one that broke off.
Stuck == {"availability_checking", "final_check_running", "booking_running"}
Owner(place) ==
    IF place = "checking" THEN "availability_checking"
    ELSE IF place = "final_check" THEN "final_check_running"
    ELSE IF place \in {"booking", "held", "settled"} THEN "booking_running" ELSE "none"

Accepted ==
    \/ ServiceSelectable(ctx.state)
    \/ ctx.state = "booking_confirmed"
    \/ ctx.state \in Stuck /\ (broken \/ \E s \in Sessions : Owner(tool[s].at) = ctx.state)

Safe ==
    /\ Alone
    /\ \A s \in Sessions : Story(s)
    /\ Summed
    /\ BookedRows
    /\ Accepted

-----------------------------------------------------------------------------
(* A tool that runs alone *)

\* A commit writes the whole copy, and a state that it changes.
LEMMA CommittedAlone ==
    ASSUME TypeOK, NEW s \in Sessions, NEW c \in Contexts, NEW signed, Kept(ctx, read[s])
    PROVE  /\ Committed(s, c, signed) \in Contexts
           /\ Kept(Committed(s, c, signed), c)
           /\ c.state # read[s].state => Committed(s, c, signed).state = c.state
<1> DEFINE r == Committed(s, c, signed)
<1>1. ctx \in Contexts
  BY DEF TypeOK
<1>2. DOMAIN ctx = {"state", "service", "wish", "time", "slot", "offered", "customer",
                    "version", "digest", "booking"}
  BY <1>1 DEF Contexts
<1>3. \A f \in DOMAIN ctx : r[f] = IF f \in signed \/ c[f] # read[s][f] THEN c[f] ELSE ctx[f]
  BY DEF Committed
<1>4. r \in Contexts
  BY CommittedType
<1> HIDE DEF r
<1>5. Kept(r, c)
  BY <1>2, <1>3 DEF Kept
<1>6. c.state # read[s].state => r.state = c.state
  BY <1>2, <1>3
<1> QED BY <1>4, <1>5, <1>6 DEF r

LEMMA DoneAlone ==
    ASSUME TypeInv, Safe, NEW s \in Sessions, tool[s].at # "idle",
           NEW c \in Contexts, NEW signed, Done(s, c, signed)
    PROVE  \E row \in Contexts :
                /\ Leaves(s, row) /\ Kept(row, c)
                /\ c.state # read[s].state => row.state = c.state
<1>1. Kept(ctx, read[s])
  BY DEF Safe, Alone
<1> QED BY <1>1, CommittedAlone DEF TypeInv, Done

LEMMA CommitsAlone ==
    ASSUME TypeInv, Safe, NEW s \in Sessions, tool[s].at # "idle",
           NEW c \in Contexts, NEW signed, Commits(s, c, signed)
    PROVE  /\ ctx' \in Contexts /\ Kept(ctx', c) /\ mine'[s] = c /\ read'[s] = c
           /\ c.state # read[s].state => ctx'.state = c.state
<1>1. Kept(ctx, read[s])
  BY DEF Safe, Alone
<1>2. mine'[s] = c /\ read'[s] = c
  BY DEF Commits, TypeInv, TypeOK
<1> QED BY <1>1, <1>2, CommittedAlone DEF Commits, TypeInv

\* After the tool has left, no tool runs.
LEMMA LeavesAlone ==
    ASSUME TypeInv, Safe, NEW s \in Sessions, tool[s].at # "idle",
           NEW c \in Contexts, Leaves(s, c)
    PROVE  /\ ctx' = c
           /\ \A t \in Sessions : tool'[t].at = "idle"
           /\ Alone'
           /\ \A t \in Sessions : Story(t)'
<1>1. ctx' = c /\ \A t \in Sessions : tool'[t].at = "idle"
  BY DEF TypeInv, TypeOK, Safe, Alone, Leaves, Idle
<1>2. "idle" \notin Tools
  BY DEF Tools
<1> QED BY <1>1, <1>2 DEF Alone, Story

\* A tool leaves the row in a state from which a service can be chosen.
LEMMA LeavesSafe ==
    ASSUME TypeInv, Safe, NEW s \in Sessions, tool[s].at # "idle",
           NEW c \in Contexts, Leaves(s, c), UNCHANGED <<rows, told, reopened>>,
           c.version = ctx.version, c.state # "awaiting_confirmation",
           c.state # "booking_confirmed", ServiceSelectable(c.state),
           NoneConfirmed \/ reopened
    PROVE  Safe'
<1>1. ctx' = c /\ Alone' /\ \A t \in Sessions : Story(t)'
  BY LeavesAlone
<1>2. Summed'
  BY <1>1 DEF Safe, Summed, Awaited, VersionNamesSummary
<1>3. BookedRows'
  BY <1>1 DEF Safe, BookedRows, NoneConfirmed
<1>4. Accepted'
  BY <1>1 DEF Accepted
<1> QED BY <1>1, <1>2, <1>3, <1>4 DEF Safe

\* So does one that commits a copy in such a state.
LEMMA DoneSafe ==
    ASSUME TypeInv, Safe, NEW s \in Sessions, tool[s].at # "idle",
           NEW c \in Contexts, NEW signed, Done(s, c, signed),
           UNCHANGED <<rows, told, reopened>>,
           c.version = ctx.version, c.state # "awaiting_confirmation",
           c.state # "booking_confirmed", ServiceSelectable(c.state),
           NoneConfirmed \/ reopened
    PROVE  Safe'
<1>1. PICK row \in Contexts : Leaves(s, row) /\ Kept(row, c)
  BY DoneAlone
<1>2. /\ row.version = ctx.version /\ row.state # "awaiting_confirmation"
      /\ row.state # "booking_confirmed" /\ ServiceSelectable(row.state)
  BY <1>1 DEF Kept, Loaded, ServiceSelectable
<1> QED BY <1>1, <1>2, LeavesSafe

\* A tool that fails leaves the row as it was.
LEMMA FailsSafe ==
    ASSUME TypeInv, Safe, NEW s \in Sessions, tool[s].at # "idle",
           Fails(s), UNCHANGED <<rows, told, reopened>>, broken' \in BOOLEAN,
           broken => broken', broken' \/ Owner(tool[s].at) = "none"
    PROVE  Safe'
<1>1. ctx \in Contexts
  BY DEF TypeInv, TypeOK
<1>2. ctx' = ctx /\ Alone' /\ \A t \in Sessions : Story(t)'
  BY <1>1, LeavesAlone DEF Fails
<1>3. Summed' /\ BookedRows'
  BY <1>2 DEF Safe, Summed, Awaited, VersionNamesSummary, BookedRows, NoneConfirmed, Row
<1>4. Accepted'
  <2>1. CASE broken'
    BY <1>2, <2>1 DEF Safe, Accepted
  <2>2. CASE ~broken'
    <3>1. \A t \in Sessions \ {s} : tool[t].at = "idle"
      BY DEF Safe, Alone
    <3>2. \A t \in Sessions : Owner(tool[t].at) = "none"
      BY <2>2, <3>1 DEF Owner
    <3>3. ServiceSelectable(ctx.state) \/ ctx.state = "booking_confirmed"
      BY <2>2, <3>2 DEF Safe, Accepted, Stuck
    <3> QED BY <1>2, <3>3 DEF Accepted
  <2> QED BY <2>1, <2>2
<1> QED BY <1>2, <1>3, <1>4 DEF Safe

\* A tool that goes on: what it changes is its own place and, perhaps, the row.
LEMMA GoesAlone ==
    ASSUME TypeInv, Safe, NEW s \in Sessions, tool[s].at # "idle",
           Kept(ctx', read'[s]),
           \A t \in Sessions \ {s} : tool'[t] = tool[t]
    PROVE  Alone' /\ \A t \in Sessions \ {s} : Story(t)'
<1>1. \A t \in Sessions \ {s} : tool'[t].at = "idle"
  BY DEF Safe, Alone
<1>2. "idle" \notin Tools
  BY DEF Tools
<1>3. Alone'
  BY <1>1 DEF Alone, Kept
<1> QED BY <1>1, <1>2, <1>3 DEF Story

LEMMA StartSafe ==
    ASSUME TypeInv, Safe, Sequential, NEW s \in Sessions, NEW t \in Tools, Start(s, t)
    PROVE  Safe'
<1>1. \A u \in Sessions : tool[u].at = "idle"
  BY DEF Start, Sequential, Resting
<1>2. /\ ctx' = ctx /\ mine'[s] = ctx /\ read'[s] = ctx /\ tool'[s].at = t
      /\ \A u \in Sessions \ {s} : tool'[u].at = "idle"
      /\ UNCHANGED <<rows, told, broken, reopened>>
  BY <1>1 DEF Start, Goes, TypeInv, TypeOK, Works, unbooked, untouched
<1>3. t \notin {"idle", "finding"} /\ Owner(t) = "none"
      /\ t \notin {"checking", "preparing", "prepared", "final_check", "booking", "held",
                   "settled"}
  BY DEF Tools, Owner
<1>4. Alone'
  BY <1>2 DEF Alone, Kept
<1>5. \A u \in Sessions : Story(u)'
  <2>1. "idle" \notin Tools /\ Awaited(ctx)
    BY DEF Tools, Safe, Summed
  <2>2. Awaited(read[s])'
    BY <1>2, <2>1 DEF Awaited
  <2> QED BY <1>2, <1>3, <2>1, <2>2 DEF Story
<1>6. Summed' /\ BookedRows'
  BY <1>2 DEF Safe, Summed, Awaited, VersionNamesSummary, BookedRows, NoneConfirmed, Row
<1>7. Accepted'
  BY <1>1, <1>2 DEF Safe, Accepted, Owner, Stuck
<1> QED BY <1>4, <1>5, <1>6, <1>7 DEF Safe

\* While a tool's row was in another state there is no confirmed booking.
LEMMA Unconfirmed ==
    ASSUME Safe, NEW s \in Sessions, tool[s].at # "idle",
           read[s].state \notin {"booking_running", "booking_confirmed"}
    PROVE  NoneConfirmed \/ reopened
<1>1. Kept(ctx, read[s])
  BY DEF Safe, Alone
<1> QED BY <1>1 DEF Safe, BookedRows, Kept, Loaded

\* The bootstrap's state is one a service can be chosen from.
LEMMA LoadsSafe ==
    ASSUME TypeInv, Safe, Loads
    PROVE  Safe'
<1>1. UNCHANGED <<channel, mine, read, tool, rows, told, agreed, broken>> /\ ctx \in Contexts
  BY LoadsOnly DEF TypeInv, TypeOK
<1>2. CASE UNCHANGED <<ctx, reopened>>
  <2>1. Alone' /\ \A s \in Sessions : Story(s)'
    BY <1>1, <1>2 DEF Safe, Alone, Story, Awaited, NoneConfirmed, Row
  <2>2. Summed' /\ BookedRows' /\ Accepted'
    BY <1>1, <1>2
       DEF Safe, Summed, Awaited, VersionNamesSummary, BookedRows, NoneConfirmed, Row, Accepted
  <2> QED BY <2>1, <2>2 DEF Safe
<1>3. ASSUME NEW state \in Loaded, Overwrites(state)
      PROVE  Safe'
  <2>1. /\ ctx'.service = ctx.service /\ ctx'.wish = ctx.wish /\ ctx'.time = ctx.time
        /\ ctx'.slot = ctx.slot /\ ctx'.offered = ctx.offered /\ ctx'.customer = ctx.customer
        /\ ctx'.version = ctx.version /\ ctx'.digest = ctx.digest /\ ctx'.booking = ctx.booking
        /\ ctx'.state = state
    BY <1>1, <1>3 DEF Overwrites, Contexts
  <2>2. /\ reopened => reopened'
        /\ ctx.state \in {"booking_running", "booking_confirmed"} => reopened'
    BY <1>3 DEF Overwrites
  <2>3. Alone'
    <3>1. ASSUME NEW s \in Sessions, tool[s].at # "idle" PROVE Kept(ctx, read[s])'
      BY <1>1, <2>1, <3>1 DEF Safe, Alone, Kept
    <3> QED BY <1>1, <3>1 DEF Safe, Alone
  <2>4. \A s \in Sessions : Story(s)'
    BY <1>1, <2>1, <2>2 DEF Safe, Story, Awaited, NoneConfirmed, Row
  <2>5. Summed'
    BY <1>1, <2>1 DEF Safe, Summed, Awaited, VersionNamesSummary, Loaded
  <2>6. BookedRows'
    BY <1>1, <2>1, <2>2 DEF Safe, BookedRows, NoneConfirmed, Loaded
  <2>7. Accepted'
    BY <2>1 DEF Accepted, ServiceSelectable, Loaded
  <2> QED BY <2>3, <2>4, <2>5, <2>6, <2>7 DEF Safe
<1> QED BY <1>2, <1>3, LoadsOnly DEF Loaded

LEMMA ResolveSafe ==
    ASSUME TypeInv, Safe, NEW s \in Sessions,
           ResolveService(s) \/ ResolveDatetime(s) \/ SelectBookingSlot(s)
    PROVE  Safe'
<1>1. /\ mine[s] \in Contexts /\ mine[s] = read[s] /\ tool[s].at # "idle"
      /\ mine[s].version = ctx.version
      /\ Owner(tool[s].at) = "none" /\ UNCHANGED <<rows, told, broken, reopened>>
  BY DEF TypeInv, TypeOK, Safe, Story, Tools, Owner, At, unbooked, untouched,
         ResolveService, ResolveDatetime, SelectBookingSlot
<1>2. CASE Fails(s)
  BY <1>1, <1>2, FailsSafe DEF TypeInv, TypeOK
<1>3. CASE ~Fails(s)
  <2>1. PICK c \in Contexts :
          /\ Done(s, c, {}) /\ c.version = ctx.version
          /\ c.state \in {"date_time_resolving", "slot_rechecking"}
          /\ read[s].state \notin {"booking_running", "booking_confirmed"}
    <3>1. CASE ResolveService(s)
      <4>1. PICK service \in Services :
              Done(s, ServiceSelected(mine[s], service), {}) /\ ServiceSelectable(mine[s].state)
        BY <1>3, <3>1 DEF ResolveService
      <4>2. /\ ServiceSelected(mine[s], service) \in Contexts
            /\ ServiceSelected(mine[s], service).version = mine[s].version
            /\ ServiceSelected(mine[s], service).state = "date_time_resolving"
        BY <1>1 DEF ServiceSelected, Contexts, States, Allowed
      <4>3. mine[s].state \notin {"booking_running", "booking_confirmed"}
        BY <4>1 DEF ServiceSelectable, Reopened
      <4> QED BY <1>1, <4>1, <4>2, <4>3
    <3>2. CASE ResolveDatetime(s)
      <4> DEFINE c(w) == [mine[s] EXCEPT !.state = "date_time_resolving", !.wish = w,
                           !.time = None, !.slot = None, !.offered = {}, !.digest = None]
      <4>1. PICK w \in Times \cup {Window, None} :
              Done(s, c(w), {}) /\ mine[s].state \in DateOpen
        BY <1>3, <3>2 DEF ResolveDatetime
      <4>2. /\ c(w) \in Contexts /\ c(w).version = mine[s].version
            /\ c(w).state = "date_time_resolving"
        BY ZenonT(30), <1>1 DEF Contexts, States, Allowed
      <4>3. mine[s].state \notin {"booking_running", "booking_confirmed"}
        BY <4>1 DEF DateOpen
      <4> HIDE DEF c
      <4> QED BY <1>1, <4>1, <4>2, <4>3
    <3>3. CASE SelectBookingSlot(s)
      <4> DEFINE c(x) == [mine[s] EXCEPT !.state = "slot_rechecking", !.slot = x,
                           !.time = x.time, !.digest = None]
      <4>1. PICK x \in mine[s].offered :
              Done(s, c(x), {}) /\ mine[s].state = "alternatives_available"
        BY <1>3, <3>3 DEF SelectBookingSlot
      <4>2. x \in Slots
        BY <1>1 DEF Contexts
      <4>3. /\ c(x) \in Contexts /\ c(x).version = mine[s].version
            /\ c(x).state = "slot_rechecking"
        BY ZenonT(30), <1>1, <4>2 DEF Contexts, States, Allowed, Slots
      <4> HIDE DEF c
      <4> QED BY <1>1, <4>1, <4>3
    <3> QED BY <3>1, <3>2, <3>3
  <2>2. NoneConfirmed \/ reopened
    BY <1>1, <2>1, Unconfirmed
  <2> QED BY <1>1, <2>1, <2>2, DoneSafe DEF ServiceSelectable, Reopened
<1> QED BY <1>2, <1>3

LEMMA CheckSafe ==
    ASSUME TypeInv, Safe, NEW s \in Sessions, CheckAvailability(s) \/ CheckFails(s)
    PROVE  Safe'
<1>1. mine[s] \in Contexts /\ ctx \in Contexts /\ tool[s] \in Works
  BY DEF TypeInv, TypeOK
<1>2. CASE CheckAvailability(s) /\ Fails(s)
  <2>1. tool[s].at # "idle" /\ Owner(tool[s].at) = "none" /\ UNCHANGED <<rows, told, broken, reopened>>
    BY <1>2 DEF CheckAvailability, At, Owner, unbooked, untouched
  <2> QED BY <1>2, <2>1, FailsSafe DEF TypeInv, TypeOK
<1>3. CASE CheckAvailability(s) /\ ~Fails(s)
  <2> DEFINE c == [mine[s] EXCEPT !.state = "availability_checking"]
  <2>1. /\ mine[s].state = "date_time_resolving" /\ mine[s] = read[s]
        /\ mine[s].version = ctx.version /\ Kept(ctx, read[s])
        /\ Keeps(s, c) /\ Goes(s, "checking") /\ UNCHANGED unbooked
        /\ tool[s].at = "check_availability"
    BY <1>3 DEF CheckAvailability, At, Safe, Alone, Story, Tools
  <2>2. c.version = mine[s].version /\ c.state = "availability_checking"
    BY <1>1 DEF Contexts
  <2> HIDE DEF c
  <2>3. /\ ctx' = ctx /\ read'[s] = read[s] /\ mine'[s] = c /\ tool'[s].at = "checking"
        /\ \A t \in Sessions \ {s} : tool'[t] = tool[t]
        /\ UNCHANGED <<rows, told, broken, reopened>>
    BY <1>1, <2>1 DEF TypeInv, TypeOK, Keeps, Goes, Works, unbooked, untouched
  <2>4. Alone' /\ \A t \in Sessions \ {s} : Story(t)'
    BY <2>1, <2>3, GoesAlone
  <2>5. Story(s)'
    BY <2>1, <2>2, <2>3 DEF Story, Tools
  <2>6. Summed' /\ BookedRows'
    BY <2>3 DEF Safe, Summed, Awaited, VersionNamesSummary, BookedRows, NoneConfirmed, Row
  <2>7. Accepted'
    BY <2>1, <2>3 DEF Accepted, ServiceSelectable, Reopened, Kept, Loaded
  <2> QED BY <2>4, <2>5, <2>6, <2>7 DEF Safe
<1>4. CASE CheckFails(s)
  <2>1. /\ tool[s].at = "checking" /\ Escapes(s) /\ broken' = TRUE
        /\ UNCHANGED <<rows, told, reopened>>
    BY <1>4 DEF CheckFails, At, untouched
  <2>2. /\ mine[s].version = ctx.version /\ mine[s].state = "availability_checking"
        /\ read[s].state \in {"date_time_resolving", "availability_checking"}
        /\ Kept(ctx, read[s])
    BY <2>1 DEF Safe, Story, Alone
  <2>3. /\ Committed(s, mine[s], {}) \in Contexts
        /\ Kept(Committed(s, mine[s], {}), mine[s])
    BY <1>1, <2>2, CommittedAlone DEF TypeInv
  <2>4. PICK c \in Contexts :
          /\ Leaves(s, c) /\ c.version = ctx.version
          /\ c.state \in {"date_time_resolving", "availability_checking"} \cup Loaded
    BY <1>1, <2>1, <2>2, <2>3 DEF Escapes, Kept
  <2>5. ctx' = c /\ Alone' /\ \A t \in Sessions : Story(t)'
    BY <2>1, <2>4, LeavesAlone
  <2>6. NoneConfirmed \/ reopened
    BY <2>1, <2>2, Unconfirmed
  <2>7. Summed' /\ BookedRows'
    BY <2>1, <2>4, <2>5, <2>6
       DEF Safe, Summed, Awaited, VersionNamesSummary, BookedRows, NoneConfirmed, Loaded
  <2>8. Accepted'
    BY <2>1, <2>4, <2>5 DEF Accepted, ServiceSelectable, Reopened, Stuck, Loaded
  <2> QED BY <2>5, <2>7, <2>8 DEF Safe
<1> QED BY <1>2, <1>3, <1>4

LEMMA SearchEndsSafe ==
    ASSUME TypeInv, Safe, NEW s \in Sessions, CheckEnds(s) \/ FindEnds(s)
    PROVE  Safe'
<1>1. /\ mine[s] \in Contexts /\ Place(tool[s], mine[s]) /\ tool[s].at # "idle"
      /\ UNCHANGED <<rows, told, broken, reopened>>
  BY DEF TypeInv, TypeOK, Places, CheckEnds, FindEnds, At, unbooked, untouched
<1>2. /\ mine[s].version = ctx.version
      /\ read[s].state \notin {"booking_running", "booking_confirmed"}
  BY DEF CheckEnds, FindEnds, At, Safe, Story
<1>3. CASE Fails(s) /\ FindEnds(s)
  BY <1>1, <1>3, FailsSafe DEF FindEnds, At, Owner, TypeInv, TypeOK
<1>4. CASE ~(Fails(s) /\ FindEnds(s))
  <2>1. PICK c \in Contexts, signed \in {{"slot", "offered"}, {"offered"}} :
          /\ Done(s, c, signed) /\ c.version = ctx.version
          /\ c.state \in {"slot_available", "alternatives_available"}
    <3>1. CASE CheckEnds(s)
      <4> DEFINE e == [service |-> mine[s].service, time |-> mine[s].wish]
                 a == [mine[s] EXCEPT !.state = "slot_available", !.time = e.time,
                         !.slot = e, !.offered = {e}]
                 b(o) == [mine[s] EXCEPT !.state = "alternatives_available", !.time = None,
                         !.slot = None, !.offered = o]
      <4>1. mine[s].service \in Services /\ mine[s].wish \in Times
        BY <1>1, <3>1 DEF CheckEnds, At, Place
      <4>2. a \in Contexts /\ a.version = mine[s].version /\ a.state = "slot_available"
        <5>1. e \in Slots /\ e.time \in Times
          BY <4>1 DEF Slots
        <5> HIDE DEF e
        <5> QED BY <1>1, <5>1 DEF Contexts, States, Allowed
      <4>3. ASSUME NEW o \in SUBSET Slots
            PROVE  /\ b(o) \in Contexts /\ b(o).version = mine[s].version
                   /\ b(o).state = "alternatives_available"
        BY <1>1 DEF Contexts, States, Allowed
      <4>4. \/ Done(s, a, {"slot", "offered"})
            \/ \E o \in SUBSET Slots : Done(s, b(o), {"offered"})
        BY <3>1 DEF CheckEnds, SlotsOf
      <4> HIDE DEF a, b
      <4> QED BY <1>2, <4>2, <4>3, <4>4
    <3>2. CASE FindEnds(s)
      <4> DEFINE c(o) == [mine[s] EXCEPT !.state = "alternatives_available", !.offered = o]
      <4>1. PICK o \in SUBSET Slots : Done(s, c(o), {"offered"})
        BY <1>4, <3>2 DEF FindEnds, SlotsOf
      <4>2. /\ c(o) \in Contexts /\ c(o).version = mine[s].version
            /\ c(o).state = "alternatives_available"
        BY <1>1 DEF Contexts, States, Allowed
      <4> HIDE DEF c
      <4> QED BY <1>2, <4>1, <4>2
    <3> QED BY <3>1, <3>2
  <2>2. NoneConfirmed \/ reopened
    BY <1>1, <1>2, Unconfirmed
  <2> QED BY <1>1, <2>1, <2>2, DoneSafe DEF ServiceSelectable, Reopened
<1> QED BY <1>3, <1>4

LEMMA FindSafe ==
    ASSUME TypeInv, Safe, NEW s \in Sessions, FindAlternatives(s)
    PROVE  Safe'
<1>1. /\ tool[s] \in Works /\ tool[s].at = "find_alternatives"
      /\ UNCHANGED <<rows, told, broken, reopened>>
  BY DEF TypeInv, TypeOK, FindAlternatives, At, unbooked, untouched
<1>2. CASE Fails(s)
  BY <1>1, <1>2, FailsSafe DEF Owner, TypeInv, TypeOK
<1>3. CASE ~Fails(s)
  <2>1. /\ mine[s].state \in {"date_time_resolving", "alternatives_available"}
        /\ Goes(s, "finding") /\ UNCHANGED <<ctx, mine, read>>
    BY <1>3 DEF FindAlternatives
  <2>2. tool'[s].at = "finding" /\ \A t \in Sessions \ {s} : tool'[t] = tool[t]
    BY <1>1, <2>1 DEF TypeInv, TypeOK, Goes, Works
  <2>3. mine[s] = read[s] /\ mine[s].version = ctx.version /\ Kept(ctx, read[s])
    BY <1>1 DEF Safe, Story, Alone, Tools
  <2>4. Alone' /\ \A t \in Sessions \ {s} : Story(t)'
    BY <1>1, <2>1, <2>2, <2>3, GoesAlone
  <2>5. Story(s)'
    BY <1>1, <2>1, <2>2, <2>3 DEF Safe, Story, Tools, Awaited
  <2>6. Summed' /\ BookedRows'
    BY <1>1, <2>1 DEF Safe, Summed, Awaited, VersionNamesSummary, BookedRows, NoneConfirmed, Row
  <2>7. Accepted'
    BY <2>1, <2>3 DEF Accepted, ServiceSelectable, Reopened, Kept, Loaded
  <2> QED BY <2>4, <2>5, <2>6, <2>7 DEF Safe
<1> QED BY <1>2, <1>3

LEMMA FlushesSafe ==
    ASSUME TypeInv, Safe, NEW s \in Sessions, Flushes(s)
    PROVE  Safe'
<1>1. /\ mine[s] \in Contexts /\ tool[s] \in Works
      /\ tool[s].at \in {"checking", "preparing"} /\ Commits(s, mine[s], {})
      /\ Goes(s, IF tool[s].at = "preparing" THEN "prepared" ELSE "checking")
      /\ UNCHANGED <<rows, told, broken, reopened>>
  BY DEF TypeInv, TypeOK, Flushes, At, unbooked, untouched
<1>2. ctx' \in Contexts /\ Kept(ctx', mine[s]) /\ mine'[s] = mine[s] /\ read'[s] = mine[s]
  BY <1>1, CommitsAlone
<1>3. /\ tool'[s].at = (IF tool[s].at = "preparing" THEN "prepared" ELSE "checking")
      /\ \A t \in Sessions \ {s} : tool'[t] = tool[t]
  BY <1>1 DEF TypeInv, TypeOK, Goes, Works
<1>4. /\ mine[s].version = ctx.version
      /\ tool[s].at = "checking" => mine[s].state = "availability_checking"
      /\ tool[s].at = "preparing" =>
            mine[s].state = "slot_rechecking" /\ mine[s].version < MaxVersion
      /\ read[s].state \notin {"booking_running", "booking_confirmed"}
  BY <1>1 DEF Safe, Story
<1>5. Alone' /\ \A t \in Sessions \ {s} : Story(t)'
  BY <1>1, <1>2, <1>3, GoesAlone
<1>6. Story(s)'
  BY <1>1, <1>2, <1>3, <1>4 DEF Story, Tools, Kept
<1>7. NoneConfirmed \/ reopened
  BY <1>1, <1>4, Unconfirmed
<1>8. Summed' /\ BookedRows'
  BY <1>1, <1>2, <1>4, <1>7
     DEF Safe, Summed, Awaited, VersionNamesSummary, BookedRows, NoneConfirmed, Kept, Loaded
<1>9. Accepted'
  <2>1. CASE tool[s].at = "checking"
    BY <1>2, <1>3, <1>4, <2>1 DEF Accepted, Stuck, Owner, Kept, Loaded, ServiceSelectable
  <2>2. CASE tool[s].at = "preparing"
    BY <1>2, <1>4, <2>2 DEF Accepted, ServiceSelectable, Reopened, Kept, Loaded
  <2> QED BY <1>1, <2>1, <2>2
<1> QED BY <1>5, <1>6, <1>8, <1>9 DEF Safe

LEMMA PrepareSafe ==
    ASSUME TypeInv, Safe, NEW s \in Sessions, Prepare(s)
    PROVE  Safe'
<1>1. /\ mine[s] \in Contexts /\ mine[s] = read[s] /\ Kept(ctx, mine[s])
      /\ mine[s].version = ctx.version /\ Awaited(mine[s]) /\ tool[s] \in Works
      /\ tool[s].at = "prepare" /\ UNCHANGED <<rows, broken, reopened>>
  BY DEF TypeInv, TypeOK, Prepare, At, Safe, Alone, Story, Tools, untouched
<1>2. CASE Fails(s) /\ UNCHANGED told
  BY <1>1, <1>2, FailsSafe DEF Owner, TypeInv, TypeOK
<1>3. CASE ~(Fails(s) /\ UNCHANGED told)
  <2> DEFINE sum(x) == [service |-> mine[s].service, time |-> mine[s].time, customer |-> x]
             key(x) == [version |-> mine[s].version, summary |-> sum(x)]
             d == IF mine[s].state = "awaiting_confirmation" THEN None ELSE mine[s].digest
             c == [mine[s] EXCEPT !.state = "slot_rechecking", !.digest = d]
  <2>1. PICK x \in Customers :
          /\ mine[s].service # None /\ mine[s].time # None
          /\ \/ /\ mine[s].state = "awaiting_confirmation" /\ mine[s].digest = sum(x)
                /\ told' = told \cup {key(x)} /\ Leaves(s, ctx)
             \/ /\ mine[s].state \in {"awaiting_confirmation", "slot_available", "slot_rechecking"}
                /\ mine[s].version < MaxVersion
                /\ Keeps(s, c)
                /\ tool' = [tool EXCEPT ![s].at = "preparing", ![s].summary = sum(x)]
                /\ UNCHANGED told
    BY <1>1, <1>3 DEF Prepare
  <2>2. CASE /\ mine[s].state = "awaiting_confirmation" /\ mine[s].digest = sum(x)
             /\ told' = told \cup {key(x)} /\ Leaves(s, ctx)
    <3>1. Key(mine[s]) \in told /\ key(x) = Key(mine[s])
      BY <1>1, <2>2 DEF Awaited, Key
    <3>2. told' = told /\ Fails(s)
      BY <2>2, <3>1 DEF Fails
    <3> QED BY <1>1, <3>2, FailsSafe DEF Owner, TypeInv, TypeOK
  <2>3. CASE /\ mine[s].state \in {"awaiting_confirmation", "slot_available", "slot_rechecking"}
             /\ mine[s].version < MaxVersion
             /\ Keeps(s, c)
             /\ tool' = [tool EXCEPT ![s].at = "preparing", ![s].summary = sum(x)]
             /\ UNCHANGED told
    <3>1. c.version = mine[s].version /\ c.state = "slot_rechecking"
      BY <1>1 DEF Contexts
    <3> HIDE DEF c, sum, d
    <3>2. /\ ctx' = ctx /\ read'[s] = mine[s] /\ mine'[s] = c
          /\ \A t \in Sessions \ {s} : tool'[t] = tool[t]
      BY <1>1, <2>3 DEF TypeInv, TypeOK, Keeps
    <3>3. tool'[s].at = "preparing"
      BY <1>1, <2>3 DEF TypeInv, TypeOK, Works
    <3>4. Alone' /\ \A t \in Sessions \ {s} : Story(t)'
      BY <1>1, <3>2, GoesAlone
    <3>5. Story(s)'
      BY <1>1, <2>3, <3>1, <3>2, <3>3 DEF Story, Tools
    <3>6. Summed' /\ BookedRows'
      BY <1>1, <2>3, <3>2
         DEF Safe, Summed, Awaited, VersionNamesSummary, BookedRows, NoneConfirmed, Row
    <3>7. Accepted'
      BY <1>1, <2>3, <3>2 DEF Accepted, ServiceSelectable, Reopened, Kept, Loaded
    <3> QED BY <3>4, <3>5, <3>6, <3>7 DEF Safe
  <2> QED BY <2>1, <2>2, <2>3
<1> QED BY <1>2, <1>3

LEMMA PrepareEndsSafe ==
    ASSUME TypeInv, Safe, NEW s \in Sessions, PrepareEnds(s) \/ PrepareFails(s)
    PROVE  Safe'
<1>1. /\ mine[s] \in Contexts /\ tool[s] \in Works /\ Place(tool[s], mine[s])
      /\ tool[s].at \in {"preparing", "prepared"} /\ UNCHANGED <<rows, broken, reopened>>
  BY DEF TypeInv, TypeOK, Places, PrepareEnds, PrepareFails, At, unbooked, untouched
<1>2. /\ mine[s].version = ctx.version
      /\ read[s].state \notin {"booking_running", "booking_confirmed"}
  BY <1>1 DEF Safe, Story
<1>3. NoneConfirmed \/ reopened
  BY <1>1, <1>2, Unconfirmed
<1>4. CASE PrepareFails(s)
  BY <1>1, <1>4, FailsSafe DEF PrepareFails, unbooked, untouched, Owner, TypeInv, TypeOK
<1>5. CASE PrepareEnds(s)
  <2> DEFINE p == Prepared(mine[s], tool[s].summary)
             c == [mine[s] EXCEPT !.state = "alternatives_available", !.slot = None,
                    !.time = None, !.digest = None]
  <2>1. \/ /\ Done(s, p, {"slot"})
           /\ told' = told \cup {[version |-> p.version, summary |-> p.digest]}
        \/ Done(s, c, {}) /\ UNCHANGED told
    BY <1>5 DEF PrepareEnds
  <2>2. CASE Done(s, c, {}) /\ UNCHANGED told
    <3>1. c \in Contexts /\ c.version = mine[s].version /\ c.state = "alternatives_available"
      BY <1>1 DEF Contexts, States, Allowed
    <3> HIDE DEF c
    <3> QED BY <1>1, <1>2, <1>3, <2>2, <3>1, DoneSafe DEF ServiceSelectable, Reopened
  <2>3. CASE /\ Done(s, p, {"slot"})
             /\ told' = told \cup {[version |-> p.version, summary |-> p.digest]}
    <3>1. p \in Contexts
      BY <1>1, <1>5, PreparedType DEF PrepareEnds, At
    <3>2. /\ p.state = "awaiting_confirmation" /\ p.version = mine[s].version + 1
          /\ p.digest = tool[s].summary /\ p.service = mine[s].service
          /\ p.time = mine[s].time /\ p.customer = tool[s].summary.customer
      BY <1>1 DEF Prepared, Contexts
    <3>3. p.digest = Summary(p)
      <4>1. tool[s].summary \in Summaries /\ mine[s].service = tool[s].summary.service
            /\ mine[s].time = tool[s].summary.time
        BY <1>1 DEF Place
      <4>2. tool[s].summary = [service |-> tool[s].summary.service,
                               time |-> tool[s].summary.time,
                               customer |-> tool[s].summary.customer]
        BY <4>1 DEF Summaries
      <4> HIDE DEF p
      <4> QED BY <3>2, <4>1, <4>2 DEF Summary
    <3> HIDE DEF p
    <3>4. PICK row \in Contexts : Leaves(s, row) /\ Kept(row, p)
      BY <1>1, <2>3, <3>1, DoneAlone
    <3>5. ctx' = row /\ Alone' /\ \A t \in Sessions : Story(t)'
      BY <1>1, <3>4, LeavesAlone
    <3>6. Summed'
      <4>1. \A k \in told : k.version <= ctx.version /\ k.version \in Nat
        BY DEF Safe, Summed, TypeInv, TypeOK, Keys
      <4>2. ctx.version \in Nat /\ p.version = ctx.version + 1
        BY <1>1, <1>2, <3>2 DEF Contexts
      <4>3. told' = told \cup {Key(p)} /\ Key(p).version = p.version
        BY <2>3 DEF Key
      <4>4. \A k \in told' : k.version <= p.version
        BY <4>1, <4>2, <4>3
      <4>5. \A k \in told : k.version # p.version
        BY <4>1, <4>2
      <4>6. VersionNamesSummary'
        BY <4>3, <4>5 DEF Safe, Summed, VersionNamesSummary
      <4>7. Awaited(ctx)'
        BY <3>3, <3>4, <3>5, <4>3 DEF Awaited, Key, Summary, Kept
      <4> QED BY <3>4, <3>5, <4>4, <4>6, <4>7 DEF Summed, Kept
    <3>7. BookedRows'
      BY <1>1, <1>3, <2>3, <3>2, <3>4, <3>5
         DEF Safe, BookedRows, NoneConfirmed, Kept, Loaded
    <3>8. Accepted'
      BY <3>2, <3>4, <3>5 DEF Accepted, ServiceSelectable, Reopened, Kept, Loaded
    <3> QED BY <3>5, <3>6, <3>7, <3>8 DEF Safe
  <2> QED BY <2>1, <2>2, <2>3
<1> QED BY <1>4, <1>5

LEMMA FinalizeSafe ==
    ASSUME TypeInv, Safe, NEW s \in Sessions, Finalize(s)
    PROVE  Safe'
<1>1. /\ mine[s] \in Contexts /\ mine[s] = read[s] /\ Kept(ctx, mine[s])
      /\ mine[s].version = ctx.version /\ Awaited(mine[s]) /\ tool[s] \in Works
      /\ tool[s].at = "finalize" /\ UNCHANGED <<rows, told, broken, reopened>>
  BY DEF TypeInv, TypeOK, Finalize, At, Safe, Alone, Story, Tools, untouched
<1>2. CASE Fails(s)
  BY <1>1, <1>2, FailsSafe DEF Owner, TypeInv, TypeOK
<1>3. CASE ~Fails(s)
  <2> DEFINE a == [mine[s] EXCEPT !.state = "date_time_resolving"]
             b == [mine[s] EXCEPT !.state = "final_check_running"]
  <2>1. PICK v \in {k.version : k \in told} :
          /\ mine[s].state = "awaiting_confirmation"
          /\ \/ Done(s, a, {})
             \/ Commits(s, b, {}) /\ Goes(s, "final_check")
    BY <1>3 DEF Finalize
  <2>2. NoneConfirmed \/ reopened
    BY <1>1, <2>1, Unconfirmed
  <2>3. CASE Done(s, a, {})
    <3>1. a \in Contexts /\ a.version = ctx.version /\ a.state = "date_time_resolving"
      BY <1>1 DEF Contexts, States, Allowed
    <3> HIDE DEF a
    <3> QED BY <1>1, <2>2, <2>3, <3>1, DoneSafe DEF ServiceSelectable, Reopened
  <2>4. CASE Commits(s, b, {}) /\ Goes(s, "final_check")
    <3>1. /\ b \in Contexts /\ b.state = "final_check_running" /\ b.version = ctx.version
          /\ b.digest = mine[s].digest /\ b.service = mine[s].service /\ b.time = mine[s].time
          /\ b.customer = mine[s].customer
      BY <1>1 DEF Contexts, States, Allowed
    <3> HIDE DEF b
    <3>2. Kept(ctx', b) /\ ctx'.state = b.state /\ mine'[s] = b /\ read'[s] = b
      BY <1>1, <2>1, <2>4, <3>1, CommitsAlone
    <3>3. tool'[s].at = "final_check" /\ \A t \in Sessions \ {s} : tool'[t] = tool[t]
      BY <1>1, <2>4 DEF TypeInv, TypeOK, Goes, Works
    <3>4. Alone' /\ \A t \in Sessions \ {s} : Story(t)'
      BY <1>1, <3>2, <3>3, GoesAlone
    <3>5. Key(b) \in told /\ b.digest = Summary(b)
      BY <1>1, <2>1, <3>1 DEF Awaited, Key, Summary
    <3>6. Story(s)'
      BY <1>1, <3>1, <3>2, <3>3, <3>5 DEF Story, Tools, Key, Summary, Kept
    <3>7. Summed' /\ BookedRows'
      BY <1>1, <2>2, <3>1, <3>2
         DEF Safe, Summed, Awaited, VersionNamesSummary, BookedRows, NoneConfirmed, Kept
    <3>8. Accepted'
      BY <3>1, <3>2, <3>3 DEF Accepted, Stuck, Owner
    <3> QED BY <3>4, <3>6, <3>7, <3>8 DEF Safe
  <2> QED BY <2>1, <2>3, <2>4
<1> QED BY <1>2, <1>3

\* A tool that learns of a confirmed row ends the conversation.
LEMMA AnnouncesSafe ==
    ASSUME TypeInv, Safe, NEW s \in Sessions, tool[s].at # "idle",
           NEW c \in Contexts, NEW signed, Done(s, c, signed),
           UNCHANGED <<rows, told, reopened>>,
           c.version = ctx.version, c.state = "booking_confirmed",
           c.state # read[s].state, Row(c.booking, "confirmed")
    PROVE  Safe'
<1>1. PICK row \in Contexts : Leaves(s, row) /\ Kept(row, c) /\ row.state = "booking_confirmed"
  BY DoneAlone
<1>2. ctx' = row /\ Alone' /\ \A t \in Sessions : Story(t)'
  BY <1>1, LeavesAlone
<1>3. row.version = ctx.version /\ row.booking = c.booking
  BY <1>1 DEF Kept
<1>4. BookedRows'
  BY <1>1, <1>2, <1>3 DEF Safe, BookedRows, NoneConfirmed, Row
<1>5. Summed' /\ Accepted'
  BY <1>1, <1>2, <1>3 DEF Safe, Summed, Awaited, VersionNamesSummary, Accepted
<1> QED BY <1>2, <1>4, <1>5 DEF Safe

LEMMA FinalCheckSafe ==
    ASSUME TypeInv, Safe, NEW s \in Sessions, FinalCheck(s) \/ FinalCheckFails(s)
    PROVE  Safe'
<1>1. /\ mine[s] \in Contexts /\ tool[s] \in Works /\ Place(tool[s], mine[s])
      /\ tool[s].at = "final_check" /\ UNCHANGED <<rows, told, reopened>>
  BY DEF TypeInv, TypeOK, Places, FinalCheck, FinalCheckFails, At, unbooked, untouched
<1>2. /\ read[s].state = "final_check_running" /\ mine[s].version = ctx.version
      /\ Key(mine[s]) \in told /\ mine[s].digest = Summary(mine[s])
  BY <1>1 DEF Safe, Story
<1>3. NoneConfirmed \/ reopened
  BY <1>1, <1>2, Unconfirmed
<1>4. CASE FinalCheckFails(s)
  BY <1>1, <1>4, FailsSafe DEF FinalCheckFails
<1>5. CASE FinalCheck(s)
  <2> DEFINE k == Key(mine[s])
             x == [service |-> mine[s].service, time |-> mine[s].time]
             a == [mine[s] EXCEPT !.state = "alternatives_available"]
             c == [mine[s] EXCEPT !.slot = x]
             r == [c EXCEPT !.state = "booking_running"]
             b == [c EXCEPT !.state = "booking_confirmed", !.booking = k]
  <2>1. \/ Done(s, a, {})
        \/ Row(k, "confirmed") /\ Done(s, b, {"slot"})
        \/ /\ Commits(s, r, {"slot"})
           /\ tool' = [tool EXCEPT ![s].at = "booking", ![s].key = k]
    BY <1>5 DEF FinalCheck, Key
  <2>2. /\ mine[s].service \in Services /\ mine[s].time \in Times
        /\ mine[s].customer \in Customers
    BY <1>1 DEF Place
  <2>3. x \in Slots /\ x.time = mine[s].time
    BY <2>2 DEF Slots
  <2>4. broken' = broken /\ k \in Keys
    BY <1>1, <1>2, <1>5 DEF FinalCheck, unbooked, Key, Keys, TypeInv, TypeOK
  <2>5. k.summary = Summary(mine[s]) /\ k \in told /\ k.version = mine[s].version
    BY <1>2 DEF Key
  <2> HIDE DEF k, x
  <2>6. CASE Done(s, a, {})
    <3>1. a \in Contexts /\ a.version = mine[s].version /\ a.state = "alternatives_available"
      BY <1>1 DEF Contexts, States, Allowed
    <3> HIDE DEF a
    <3> QED BY <1>1, <1>2, <1>3, <2>6, <3>1, DoneSafe DEF ServiceSelectable, Reopened
  <2>7. CASE /\ Commits(s, r, {"slot"})
             /\ tool' = [tool EXCEPT ![s].at = "booking", ![s].key = k]
    <3>1. /\ r \in Contexts /\ r.state = "booking_running" /\ r.version = mine[s].version
          /\ r.service = mine[s].service /\ r.slot = x /\ r.customer = mine[s].customer
      BY ZenonT(30), <1>1, <2>3 DEF Contexts, States, Allowed
    <3> HIDE DEF r
    <3>2. Kept(ctx', r) /\ ctx'.state = r.state /\ mine'[s] = r /\ read'[s] = r
      BY <1>1, <1>2, <2>7, <3>1, CommitsAlone
    <3>3. /\ tool'[s].at = "booking" /\ tool'[s].key = k
          /\ \A t \in Sessions \ {s} : tool'[t] = tool[t]
      BY <1>1, <2>7 DEF TypeInv, TypeOK, Works
    <3>4. Alone' /\ \A t \in Sessions \ {s} : Story(t)'
      BY <1>1, <3>2, <3>3, GoesAlone
    <3>5. k.summary = Material(r)
      BY <2>3, <2>5, <3>1 DEF Material, Summary
    <3>6. Story(s)'
      BY <1>1, <1>2, <1>3, <2>5, <3>1, <3>2, <3>3, <3>5
         DEF Story, Tools, NoneConfirmed, Material, Kept
    <3>7. Summed' /\ BookedRows'
      BY <1>1, <1>2, <1>3, <3>1, <3>2
         DEF Safe, Summed, Awaited, VersionNamesSummary, BookedRows, NoneConfirmed, Kept
    <3>8. Accepted'
      BY <3>1, <3>2, <3>3 DEF Accepted, Stuck, Owner
    <3> QED BY <3>4, <3>6, <3>7, <3>8 DEF Safe
  <2>8. CASE Row(k, "confirmed") /\ Done(s, b, {"slot"})
    <3>1. /\ b \in Contexts /\ b.state = "booking_confirmed" /\ b.version = mine[s].version
          /\ b.booking = k
      BY ZenonT(30), <1>1, <2>3, <2>4 DEF Contexts, States, Allowed
    <3> HIDE DEF b
    <3> QED BY <1>1, <1>2, <2>4, <2>8, <3>1, AnnouncesSafe
  <2> QED BY <2>1, <2>6, <2>7, <2>8
<1> QED BY <1>4, <1>5

LEMMA CreateRowsSafe ==
    ASSUME TypeInv, Safe, NEW s \in Sessions, CreateHolds(s) \/ CreateConfirms(s)
    PROVE  Safe'
<1>1. /\ mine[s] \in Contexts /\ tool[s] \in Works
      /\ tool[s].at \in {"booking", "held"} /\ UNCHANGED <<ctx, mine, read, told, broken, reopened>>
  BY DEF TypeInv, TypeOK, CreateHolds, CreateConfirms, At, untouched
<1>2. /\ read[s].state = "booking_running" /\ mine[s].version = ctx.version
      /\ ctx.state = "booking_running" \/ reopened
      /\ tool[s].key \in told /\ tool[s].key.version = ctx.version
      /\ tool[s].key.summary = Material(mine[s]) /\ (NoneConfirmed \/ reopened)
      /\ Kept(ctx, read[s])
  BY <1>1 DEF Safe, Story, Alone
<1>3. PICK place \in {"held", "settled"} : Goes(s, place) /\ (place = "held" <=> CreateHolds(s))
  BY DEF CreateHolds, CreateConfirms, At
<1>4. /\ tool'[s].at = place /\ tool'[s].key = tool[s].key
      /\ \A t \in Sessions \ {s} : tool'[t] = tool[t]
  BY <1>1, <1>3 DEF TypeInv, TypeOK, Goes, Works
<1>5. Alone' /\ \A t \in Sessions \ {s} : Story(t)'
  BY <1>1, <1>2, <1>4, GoesAlone
<1>6. Summed' /\ Accepted'
  BY <1>1, <1>2, <1>4
     DEF Safe, Summed, Awaited, VersionNamesSummary, Accepted, Stuck, Owner, Kept, Loaded,
         ServiceSelectable
<1>7. CASE CreateHolds(s)
  <2> DEFINE n == [key |-> tool[s].key, made |-> Material(mine[s]), status |-> "pending"]
  <2>1. rows' = rows \cup {n} /\ \A r \in rows : r.key # tool[s].key
    BY <1>7 DEF CreateHolds
  <2>2. n.key = tool[s].key /\ n.made = n.key.summary /\ n.status = "pending"
    BY <1>2
  <2> HIDE DEF n
  <2>3. (NoneConfirmed \/ reopened)' /\ \E r \in rows' : r.key = tool[s].key /\ r.status = "pending"
    BY <1>1, <1>2, <2>1, <2>2 DEF NoneConfirmed
  <2>4. BookedRows'
    BY <1>1, <1>2, <2>1, <2>2, <2>3 DEF Safe, BookedRows, NoneConfirmed, Row
  <2>5. Story(s)'
    BY <1>1, <1>2, <1>3, <1>4, <1>7, <2>3 DEF Story, Tools, NoneConfirmed, Row
  <2> QED BY <1>5, <1>6, <2>4, <2>5 DEF Safe
<1>8. CASE CreateConfirms(s) /\ ~CreateHolds(s)
  <2> DEFINE new(r) == [r EXCEPT !.status = IF r.key = tool[s].key THEN "confirmed"
                                            ELSE r.status]
  <2>1. rows' = {new(r) : r \in rows} /\ tool[s].at = "held"
    BY <1>8 DEF CreateConfirms, RowBecomes, At
  <2>2. ASSUME NEW r \in rows
        PROVE  /\ new(r).key = r.key /\ new(r).made = r.made
               /\ new(r).status = (IF r.key = tool[s].key THEN "confirmed" ELSE r.status)
    BY DEF TypeInv, TypeOK
  <2> HIDE DEF new
  <2>3. \E r \in rows : r.key = tool[s].key
    BY <2>1 DEF Safe, Story, Row
  <2>4. Row(tool[s].key, "confirmed")'
    BY <1>4, <2>1, <2>2, <2>3 DEF Row
  <2>5. reopened \/ \A r \in rows' : r.status = "confirmed" => r.key = tool[s].key
    BY <1>2, <2>1, <2>2 DEF NoneConfirmed
  <2>6. \A q, r \in rows' : q.key = r.key => q = r
    BY <2>1, <2>2 DEF Safe, BookedRows
  <2>7. ctx.state = "booking_confirmed" => Row(ctx.booking, "confirmed")'
    BY <2>1, <2>2, <1>1 DEF Safe, BookedRows, Row
  <2>8. BookedRows'
    BY <1>1, <1>2, <2>1, <2>2, <2>5, <2>6, <2>7 DEF Safe, BookedRows
  <2>9. Story(s)'
    BY <1>1, <1>2, <1>3, <1>4, <1>8, <2>4 DEF Story, Tools
  <2> QED BY <1>5, <1>6, <2>8, <2>9 DEF Safe
<1> QED BY <1>7, <1>8

LEMMA BookedCopy ==
    ASSUME NEW c \in Contexts, NEW k \in Keys
    PROVE  LET b == [c EXCEPT !.state = "booking_confirmed", !.booking = k] IN
           b \in Contexts /\ b.version = c.version /\ b.state = "booking_confirmed" /\ b.booking = k
BY DEF Contexts, States, Allowed

LEMMA CreateEndsSafe ==
    ASSUME TypeInv, Safe, NEW s \in Sessions,
           CreateRefuses(s) \/ CreateFinds(s) \/ CreateFails(s) \/ FinalizeEnds(s)
    PROVE  Safe'
<1>1. /\ ctx \in Contexts /\ mine[s] \in Contexts /\ tool[s] \in Works
      /\ tool[s].at \in {"booking", "held", "settled"} /\ UNCHANGED <<told, broken, reopened>>
  BY DEF TypeInv, TypeOK, CreateRefuses, CreateFinds, CreateFails, FinalizeEnds, At, unbooked, untouched
<1>2. /\ read[s].state = "booking_running" /\ mine[s].version = ctx.version
      /\ ctx.state \in {"booking_running"} \cup Loaded
      /\ tool[s].at \in {"booking", "held"} => NoneConfirmed \/ reopened
  BY <1>1 DEF Safe, Story, Alone, Kept
<1>3. CASE CreateRefuses(s)
  <2>1. (NoneConfirmed \/ reopened) /\ UNCHANGED rows
    BY <1>2, <1>3 DEF CreateRefuses, At, unbooked
  <2>2. CASE \E state \in {"alternatives_available", "booking_failed"} :
               Done(s, [mine[s] EXCEPT !.state = state], {})
    <3>1. PICK state \in {"alternatives_available", "booking_failed"} :
            Done(s, [mine[s] EXCEPT !.state = state], {})
      BY <2>2
    <3> DEFINE c == [mine[s] EXCEPT !.state = state]
    <3>2. c \in Contexts /\ c.version = mine[s].version /\ c.state = state
      BY <1>1 DEF Contexts, States, Allowed
    <3>3. Done(s, c, {})
      BY <3>1
    <3> HIDE DEF c
    <3> QED BY <1>1, <1>2, <2>1, <3>2, <3>3, DoneSafe DEF ServiceSelectable, Reopened
  <2>3. CASE Leaves(s, [ctx EXCEPT !.state = "alternatives_available"])
    <3> DEFINE c == [ctx EXCEPT !.state = "alternatives_available"]
    <3>1. c \in Contexts /\ c.version = ctx.version /\ c.state = "alternatives_available"
      BY <1>1 DEF Contexts, States, Allowed
    <3>2. Leaves(s, c)
      BY <2>3
    <3> HIDE DEF c
    <3> QED BY <1>1, <2>1, <3>1, <3>2, LeavesSafe DEF ServiceSelectable, Reopened
  <2>4. CASE ~May(ctx.state, "alternatives_available") /\ Fails(s)
    <3>1. ctx.state \in Loaded
      BY <1>2, <2>4 DEF May, Allowed
    <3> QED BY <1>1, <2>1, <2>4, <3>1, LeavesSafe DEF Fails, ServiceSelectable, Loaded
  <2> QED BY <1>3, <2>2, <2>3, <2>4 DEF CreateRefuses
<1>4. CASE CreateFinds(s) \/ FinalizeEnds(s)
  <2> DEFINE c == [mine[s] EXCEPT !.state = "booking_confirmed", !.booking = tool[s].key]
  <2>1. /\ Done(s, c, {}) /\ tool[s].at \in {"booking", "settled"} /\ UNCHANGED rows
        /\ Row(tool[s].key, "confirmed")
    BY <1>4 DEF CreateFinds, FinalizeEnds, Booked, At, unbooked, Safe, Story
  <2>2. tool[s].key \in Keys
    BY <2>1 DEF TypeInv, Places, Place
  <2>3. /\ c \in Contexts /\ c.version = mine[s].version /\ c.state = "booking_confirmed"
        /\ c.booking = tool[s].key
    BY <1>1, <2>2, BookedCopy
  <2> HIDE DEF c
  <2> QED BY <1>1, <1>2, <2>1, <2>3, AnnouncesSafe
<1>5. CASE CreateFails(s)
  <2> DEFINE c == [mine[s] EXCEPT !.state = "booking_failed"]
             new(r) == [r EXCEPT !.status = IF r.key = tool[s].key THEN "failed" ELSE r.status]
  <2>1. /\ Done(s, c, {}) /\ tool[s].at = "held"
        /\ rows' = {new(r) : r \in rows} \/ rows' = rows
    BY <1>5 DEF CreateFails, RowBecomes, At
  <2>2. ASSUME NEW r \in rows
        PROVE  /\ new(r).key = r.key /\ new(r).made = r.made
               /\ new(r).status \in {"failed", r.status}
    BY DEF TypeInv, TypeOK
  <2>3. c \in Contexts /\ c.version = mine[s].version /\ c.state = "booking_failed"
    BY <1>1 DEF Contexts, States, Allowed
  <2> HIDE DEF c, new
  <2>4. PICK row \in Contexts : Leaves(s, row) /\ Kept(row, c)
    BY <1>1, <2>1, <2>3, DoneAlone
  <2>5. ctx' = row /\ Alone' /\ \A t \in Sessions : Story(t)'
    BY <1>1, <2>4, LeavesAlone
  <2>6. (NoneConfirmed \/ reopened)'
    BY <1>1, <1>2, <2>1, <2>2 DEF NoneConfirmed
  <2>7. \A q, r \in rows' : q.key = r.key => q = r
    BY <2>1, <2>2 DEF Safe, BookedRows
  <2>8. \A r \in rows' : r.key \in told /\ r.made = r.key.summary
    BY <2>1, <2>2 DEF Safe, BookedRows
  <2>9. BookedRows'
    BY <1>1, <2>3, <2>4, <2>5, <2>6, <2>7, <2>8 DEF BookedRows, NoneConfirmed, Kept, Loaded
  <2>10. Summed' /\ Accepted'
    BY <1>1, <1>2, <2>3, <2>4, <2>5
       DEF Safe, Summed, Awaited, VersionNamesSummary, Accepted, ServiceSelectable, Reopened,
           Kept, Loaded
  <2> QED BY <2>5, <2>9, <2>10 DEF Safe
<1> QED BY <1>1, <1>3, <1>4, <1>5

LEMMA SafeStep ==
    ASSUME TypeInv, Sequential, Safe, [Next]_vars
    PROVE  Safe'
<1>1. CASE UNCHANGED vars
  <2>1. UNCHANGED <<ctx, mine, read, tool, rows, told, broken, reopened>>
    BY <1>1 DEF vars
  <2>2. Alone' /\ \A s \in Sessions : Story(s)'
    BY <2>1 DEF Safe, Alone, Story, Awaited, NoneConfirmed, Row
  <2>3. Summed' /\ BookedRows' /\ Accepted'
    BY <2>1 DEF Safe, Summed, Awaited, VersionNamesSummary, BookedRows, NoneConfirmed, Row, Accepted
  <2> QED BY <2>2, <2>3 DEF Safe
<1>2. ASSUME NEW s \in Sessions, Breaks(s) PROVE Safe'
  BY <1>2, FailsSafe DEF Breaks, At, untouched
<1> QED BY <1>1, <1>2, StartSafe, ResolveSafe, CheckSafe, SearchEndsSafe, FindSafe, FlushesSafe,
        PrepareSafe, PrepareEndsSafe, FinalizeSafe, FinalCheckSafe, CreateRowsSafe,
        CreateEndsSafe, LoadsSafe DEF Next

-----------------------------------------------------------------------------
(* Versions that were agreed to *)

AgreedInv ==
    /\ OnlyAgreedBooked
    /\ \A s \in Sessions :
        /\ tool[s].at = "final_check" => mine[s].version \in agreed
        /\ tool[s].at \in {"booking", "held", "settled"} => tool[s].key.version \in agreed

\* A tool call that begins, ends or does not book touches none of this.
LEMMA AgreedFrame ==
    ASSUME TypeInv, AgreedInv, NEW s \in Sessions,
           \A t \in Sessions \ {s} : tool'[t] = tool[t] /\ mine'[t] = mine[t],
           agreed \subseteq agreed', OnlyAgreedBooked',
           tool'[s].at = "final_check" => mine'[s].version \in agreed',
           tool'[s].at \in {"booking", "held", "settled"} => tool'[s].key.version \in agreed'
    PROVE  AgreedInv'
BY DEF AgreedInv

LEMMA AgreedLeaves ==
    ASSUME TypeInv, AgreedInv, NEW s \in Sessions, NEW c, Leaves(s, c), UNCHANGED agreed,
           \A r \in rows' : \E q \in rows : q.key = r.key
    PROVE  AgreedInv'
<1>1. tool'[s].at = "idle" /\ \A t \in Sessions \ {s} : tool'[t] = tool[t] /\ mine'[t] = mine[t]
  BY DEF Leaves, Idle, TypeInv, TypeOK
<1>2. OnlyAgreedBooked'
  BY DEF AgreedInv, OnlyAgreedBooked
<1> QED BY <1>1, <1>2, AgreedFrame

LEMMA AgreedStep ==
    ASSUME TypeInv, AgreedInv, [Next]_vars
    PROVE  AgreedInv'
<1>1. CASE UNCHANGED vars
  BY <1>1 DEF vars, AgreedInv, OnlyAgreedBooked
<1>2. ASSUME NEW s \in Sessions, NEW t \in Tools, Start(s, t) PROVE AgreedInv'
  BY <1>2 DEF Start, Goes, unbooked, untouched, Tools, AgreedInv, OnlyAgreedBooked, TypeInv, TypeOK, Works
<1>3. ASSUME NEW s \in Sessions, NEW c, Leaves(s, c), UNCHANGED <<agreed, rows>> PROVE AgreedInv'
  BY <1>3, AgreedLeaves
<1>4. ASSUME NEW s \in Sessions,
             \/ ResolveService(s) \/ ResolveDatetime(s) \/ SelectBookingSlot(s)
             \/ CheckEnds(s) \/ CheckFails(s) \/ FindEnds(s) \/ PrepareEnds(s)
             \/ PrepareFails(s) \/ FinalCheckFails(s) \/ CreateRefuses(s) \/ CreateFinds(s)
             \/ FinalizeEnds(s) \/ Breaks(s)
      PROVE  AgreedInv'
  <2>1. \E c : Leaves(s, c)
    BY <1>4 DEF ResolveService, ResolveDatetime, SelectBookingSlot, CheckEnds, CheckFails,
         FindEnds, PrepareEnds, PrepareFails, FinalCheckFails, CreateRefuses, CreateFinds,
         FinalizeEnds, Breaks, Done, Fails, Escapes
  <2>2. UNCHANGED <<agreed, rows>>
    BY <1>4 DEF ResolveService, ResolveDatetime, SelectBookingSlot, CheckEnds, CheckFails,
         FindEnds, PrepareEnds, PrepareFails, FinalCheckFails, CreateRefuses, CreateFinds,
         FinalizeEnds, Breaks, unbooked, untouched
  <2> QED BY <1>3, <2>1, <2>2
<1>5. ASSUME NEW s \in Sessions,
             CheckAvailability(s) \/ FindAlternatives(s) \/ Flushes(s) \/ Prepare(s)
      PROVE  AgreedInv'
  <2>1. UNCHANGED <<agreed, rows>>
    BY <1>5 DEF CheckAvailability, FindAlternatives, Flushes, Prepare, unbooked, untouched
  <2>2. CASE \E c : Leaves(s, c)
    BY <1>3, <2>1, <2>2
  <2>3. CASE ~\E c : Leaves(s, c)
    <3> DEFINE Resumes == {"checking", "finding", "preparing", "prepared"}
               Here(places) ==
            /\ tool'[s].at \in places
            /\ \A t \in Sessions \ {s} : tool'[t] = tool[t] /\ mine'[t] = mine[t]
    <3>1. ASSUME CheckAvailability(s) PROVE Here(Resumes)
      <4>1. Goes(s, "checking") /\ \E c : mine' = [mine EXCEPT ![s] = c]
        BY <2>3, <3>1 DEF CheckAvailability, Fails, Keeps
      <4> QED BY <4>1 DEF Goes, TypeInv, TypeOK, Works
    <3>2. ASSUME FindAlternatives(s) PROVE Here(Resumes)
      <4>1. Goes(s, "finding") /\ mine' = mine
        BY <2>3, <3>2 DEF FindAlternatives, Fails
      <4> QED BY <4>1 DEF Goes, TypeInv, TypeOK, Works
    <3>3. ASSUME Flushes(s) PROVE Here(Resumes)
      BY <3>3 DEF Flushes, Commits, Goes, TypeInv, TypeOK, Works
    <3>4. ASSUME Prepare(s) PROVE Here(Resumes)
      <4> DEFINE sum(x) == [service |-> mine[s].service, time |-> mine[s].time,
                            customer |-> x]
                 c == [mine[s] EXCEPT !.state = "slot_rechecking", !.digest =
                         IF mine[s].state = "awaiting_confirmation" THEN None
                         ELSE mine[s].digest]
      <4>1. PICK x \in Customers :
              /\ Keeps(s, c)
              /\ tool' = [tool EXCEPT ![s].at = "preparing", ![s].summary = sum(x)]
        BY <2>3, <3>4 DEF Prepare, Fails
      <4> HIDE DEF sum, c
      <4> QED BY <4>1 DEF Keeps, TypeInv, TypeOK, Works
    <3>6. Here(Resumes)
      BY <1>5, <3>1, <3>2, <3>3, <3>4
    <3>7. OnlyAgreedBooked'
      BY <2>1 DEF AgreedInv, OnlyAgreedBooked
    <3> QED BY <2>1, <3>6, <3>7, AgreedFrame
  <2> QED BY <2>2, <2>3
<1>6. ASSUME NEW s \in Sessions, Finalize(s) PROVE AgreedInv'
  <2>1. rows' = rows /\ agreed \subseteq agreed' /\ OnlyAgreedBooked'
    BY <1>6 DEF Finalize, AgreedInv, OnlyAgreedBooked
  <2>2. CASE \E c : Leaves(s, c) /\ UNCHANGED agreed
    BY <1>3, <2>1, <2>2
  <2>3. CASE ~\E c : Leaves(s, c) /\ UNCHANGED agreed
    <3> DEFINE b == [mine[s] EXCEPT !.state = "final_check_running"]
    <3>1. PICK v \in {k.version : k \in told} :
            /\ CurrentVersion(mine[s], v) /\ Commits(s, b, {}) /\ Goes(s, "final_check")
            /\ agreed' = agreed \cup {v}
      BY <1>6, <2>3 DEF Finalize, Fails, Done
    <3>2. b.version = mine[s].version
      BY DEF TypeInv, TypeOK, Contexts
    <3> HIDE DEF b
    <3>3. /\ tool'[s].at = "final_check" /\ mine'[s] = b
          /\ \A t \in Sessions \ {s} : tool'[t] = tool[t] /\ mine'[t] = mine[t]
      BY <3>1 DEF Commits, Goes, TypeInv, TypeOK, Works
    <3> QED BY <2>1, <3>1, <3>2, <3>3, AgreedFrame DEF CurrentVersion
  <2> QED BY <2>2, <2>3
<1>7. ASSUME NEW s \in Sessions, FinalCheck(s) PROVE AgreedInv'
  <2>1. UNCHANGED <<agreed, rows>> /\ mine[s].version \in agreed /\ OnlyAgreedBooked'
    BY <1>7 DEF FinalCheck, unbooked, untouched, At, AgreedInv, OnlyAgreedBooked
  <2>2. CASE \E c : Leaves(s, c)
    BY <1>3, <2>1, <2>2
  <2>3. CASE ~\E c : Leaves(s, c)
    <3>1. PICK c, k : /\ Commits(s, c, {"slot"})
                      /\ tool' = [tool EXCEPT ![s].at = "booking", ![s].key = k]
                      /\ k.version = mine[s].version
      BY <1>7, <2>3 DEF FinalCheck, Done
    <3>2. /\ tool'[s].at = "booking" /\ tool'[s].key = k
          /\ \A t \in Sessions \ {s} : tool'[t] = tool[t] /\ mine'[t] = mine[t]
      BY <3>1 DEF Commits, TypeInv, TypeOK, Works
    <3>3. /\ tool'[s].key.version \in agreed' /\ agreed \subseteq agreed'
          /\ tool'[s].at # "final_check"
      BY <2>1, <3>1, <3>2
    <3> QED BY <2>1, <3>2, <3>3, AgreedFrame
  <2> QED BY <2>2, <2>3
<1>8. ASSUME NEW s \in Sessions, CreateHolds(s) \/ CreateConfirms(s) PROVE AgreedInv'
  <2>1. /\ agreed' = agreed /\ tool[s].key.version \in agreed /\ tool'[s].key = tool[s].key
        /\ tool'[s].at \in {"held", "settled"}
        /\ \A t \in Sessions \ {s} : tool'[t] = tool[t] /\ mine'[t] = mine[t]
    BY <1>8 DEF CreateHolds, CreateConfirms, At, AgreedInv, Goes, TypeInv, TypeOK, Works
  <2>2. \A r \in rows' : r.key = tool[s].key \/ \E q \in rows : q.key = r.key
    BY <1>8 DEF CreateHolds, CreateConfirms, RowBecomes, TypeInv, TypeOK
  <2>3. OnlyAgreedBooked'
    BY <2>1, <2>2 DEF AgreedInv, OnlyAgreedBooked
  <2> QED BY <2>1, <2>3, AgreedFrame
<1>9. ASSUME NEW s \in Sessions, CreateFails(s) PROVE AgreedInv'
  <2>1. PICK c : Leaves(s, c)
    BY <1>9 DEF CreateFails, Done
  <2>2. agreed' = agreed /\ \A r \in rows' : \E q \in rows : q.key = r.key
    BY <1>9 DEF CreateFails, RowBecomes, TypeInv, TypeOK
  <2> QED BY <2>1, <2>2, AgreedLeaves
<1>10. CASE Loads
  BY <1>10, LoadsOnly DEF AgreedInv, OnlyAgreedBooked
<1> QED BY <1>1, <1>2, <1>4, <1>5, <1>6, <1>7, <1>8, <1>9, <1>10 DEF Next

-----------------------------------------------------------------------------
(* A confirmed conversation, however tools overlap *)

\* A row or copy that names a booking, or claims one, names a confirmed one.
Sound(c) ==
    c.booking # None \/ c.state = "booking_confirmed" => Row(c.booking, "confirmed")

\* A copy never forgets a booking the row names; a tool that books ends with it.
Copies ==
    /\ Sound(ctx)
    /\ \A s \in Sessions :
        /\ Sound(mine[s])
        /\ mine[s].booking = read[s].booking
        /\ mine[s].booking # None => Row(ctx.booking, "confirmed")

\* Each key has one row, and one session that may still change it.
Holders ==
    /\ \A q, r \in rows : q.key = r.key => q = r
    /\ \A s \in Sessions :
        /\ tool[s].at = "held" => Row(tool[s].key, "pending")
        /\ tool[s].at = "settled" => Row(tool[s].key, "confirmed")
    /\ \A s, t \in Sessions :
        tool[s].at = "held" /\ tool[t].at = "held" /\ tool[s].key = tool[t].key => s = t

BookedInv == Copies /\ Holders

\* A copy that a tool may commit.
Fit(s, c) ==
    /\ Sound(c)
    /\ c.booking = mine[s].booking \/ Row(c.booking, "confirmed")

\* A commit writes the state and the booking from different sources, and the row
\* stays sound.
LEMMA CommittedSound ==
    ASSUME TypeInv, Copies, NEW s \in Sessions, NEW c, Fit(s, c),
           NEW signed, "booking" \notin signed
    PROVE  LET r == Committed(s, c, signed) IN
           /\ Sound(r)
           /\ Row(ctx.booking, "confirmed") \/ c.booking # None => Row(r.booking, "confirmed")
<1> DEFINE r == Committed(s, c, signed)
<1>1. {"state", "booking"} \subseteq DOMAIN ctx
  BY DEF TypeInv, TypeOK, Contexts
<1>2. /\ r.booking = (IF c.booking # read[s].booking THEN c.booking ELSE ctx.booking)
      /\ r.state \in {c.state, ctx.state}
  BY <1>1 DEF Committed
<1> HIDE DEF r
<1>3. Row(ctx.booking, "confirmed") \/ c.booking # None => Row(r.booking, "confirmed")
  BY <1>2 DEF Copies, Fit, Sound, Row
<1>4. Sound(r)
  BY <1>2 DEF Copies, Fit, Sound, Row
<1> QED BY <1>3, <1>4 DEF r

\* The row and the copies, in a step that takes no confirmation back.
LEMMA CopiesKept ==
    ASSUME TypeInv, Copies, NEW s \in Sessions,
           \A k : Row(k, "confirmed") => Row(k, "confirmed")',
           \A t \in Sessions \ {s} : mine'[t] = mine[t] /\ read'[t] = read[t],
           Sound(ctx)', Row(ctx.booking, "confirmed") => Row(ctx.booking, "confirmed")',
           Sound(mine[s])', mine'[s].booking = read'[s].booking,
           mine'[s].booking # None => Row(ctx.booking, "confirmed")'
    PROVE  Copies'
<1>1. ASSUME NEW t \in Sessions \ {s}
      PROVE  /\ Sound(mine[t])'
             /\ mine'[t].booking = read'[t].booking
             /\ mine'[t].booking # None => Row(ctx.booking, "confirmed")'
  <2>1. /\ mine'[t] = mine[t] /\ read'[t] = read[t]
        /\ Sound(mine[t]) /\ mine[t].booking = read[t].booking
        /\ mine[t].booking # None => Row(ctx.booking, "confirmed")
    BY DEF Copies
  <2>2. Row(mine[t].booking, "confirmed") => Row(mine[t].booking, "confirmed")'
    BY <2>1
  <2> QED BY <2>1, <2>2 DEF Sound
<1> QED BY <1>1 DEF Copies

\* The tool of a session ends, and leaves a sound row.
Ends(s) ==
    \E c : /\ Leaves(s, c)
           /\ Sound(c)
           /\ Row(ctx.booking, "confirmed") => Row(c.booking, "confirmed")

LEMMA DoneEnds ==
    ASSUME TypeInv, Copies, NEW s \in Sessions, NEW c, Fit(s, c),
           NEW signed, "booking" \notin signed, Done(s, c, signed)
    PROVE  Ends(s)
<1>1. Leaves(s, Committed(s, c, signed))
  BY DEF Done
<1> QED BY <1>1, CommittedSound DEF Ends

LEMMA FailsEnds ==
    ASSUME TypeInv, Copies, NEW s \in Sessions, Fails(s)
    PROVE  Ends(s)
BY DEF Fails, Ends, Copies

LEMMA MineFits ==
    ASSUME TypeInv, Copies, NEW s \in Sessions
    PROVE  Fit(s, mine[s])
BY DEF Copies, Fit

LEMMA OtherFits ==
    ASSUME TypeInv, Copies, NEW s \in Sessions, NEW c,
           c.booking = mine[s].booking, c.state # "booking_confirmed"
    PROVE  Fit(s, c)
BY DEF Copies, Fit, Sound

LEMMA BookedFits ==
    ASSUME TypeInv, NEW s \in Sessions, Row(tool[s].key, "confirmed")
    PROVE  Fit(s, Booked(s, tool[s].key))
<1>1. Booked(s, tool[s].key).booking = tool[s].key
  BY DEF Booked, TypeInv, TypeOK, Contexts
<1> QED BY <1>1 DEF Fit, Sound

LEMMA EscapesEnds ==
    ASSUME TypeInv, Copies, NEW s \in Sessions, Escapes(s)
    PROVE  Ends(s)
<1>1. CASE channel = "telephone"
  BY <1>1, MineFits, DoneEnds DEF Escapes, Done
<1>2. CASE channel # "telephone"
  BY <1>2, FailsEnds DEF Escapes, Fails
<1> QED BY <1>1, <1>2

LEMMA EndsKept ==
    ASSUME TypeInv, Copies, NEW s \in Sessions, Ends(s),
           \A k : Row(k, "confirmed") => Row(k, "confirmed")'
    PROVE  Copies'
<1>1. PICK c : /\ Leaves(s, c) /\ Sound(c)
               /\ Row(ctx.booking, "confirmed") => Row(c.booking, "confirmed")
  BY DEF Ends
<1>2. /\ ctx' = c /\ mine'[s] = Blank /\ read'[s] = Blank
      /\ \A t \in Sessions \ {s} : mine'[t] = mine[t] /\ read'[t] = read[t]
  BY <1>1 DEF Leaves, TypeInv, TypeOK
<1>3. Row(c.booking, "confirmed") => Row(c.booking, "confirmed")'
  OBVIOUS
<1>4. /\ Sound(ctx)'
      /\ Row(ctx.booking, "confirmed") => Row(ctx.booking, "confirmed")'
  BY <1>1, <1>2, <1>3 DEF Sound
<1>5. /\ Sound(mine[s])' /\ mine'[s].booking = read'[s].booking
      /\ mine'[s].booking = None
  BY <1>2 DEF Sound, Blank
<1> QED BY <1>2, <1>4, <1>5, CopiesKept

LEMMA CommitsKept ==
    ASSUME TypeInv, Copies, NEW s \in Sessions, NEW c, Fit(s, c),
           NEW signed, "booking" \notin signed, Commits(s, c, signed), UNCHANGED rows
    PROVE  Copies'
<1>1. /\ ctx' = Committed(s, c, signed) /\ mine'[s] = c /\ read'[s] = c
      /\ \A t \in Sessions \ {s} : mine'[t] = mine[t] /\ read'[t] = read[t]
  BY DEF Commits, TypeInv, TypeOK
<1>2. \A k : Row(k, "confirmed") <=> Row(k, "confirmed")'
  BY DEF Row
<1>3. /\ Sound(ctx') /\ Sound(c)
      /\ Row(ctx.booking, "confirmed") \/ c.booking # None => Row(ctx'.booking, "confirmed")
  BY <1>1, CommittedSound DEF Fit
<1>4. /\ Sound(ctx)' /\ Sound(mine[s])'
      /\ Row(ctx.booking, "confirmed") \/ c.booking # None => Row(ctx.booking, "confirmed")'
  BY <1>1, <1>3 DEF Sound, Row
<1> QED BY <1>1, <1>2, <1>4, CopiesKept

\* Outside create() no row changes, and the session is in none of its places.
LEMMA OutsideCreate ==
    ASSUME TypeInv, NEW s \in Sessions,
           \/ \E t \in Tools : Start(s, t)
           \/ ResolveService(s) \/ ResolveDatetime(s) \/ SelectBookingSlot(s)
           \/ CheckAvailability(s) \/ CheckEnds(s) \/ CheckFails(s)
           \/ FindAlternatives(s) \/ FindEnds(s) \/ Flushes(s)
           \/ Prepare(s) \/ PrepareEnds(s) \/ PrepareFails(s)
           \/ Finalize(s) \/ FinalCheck(s) \/ FinalCheckFails(s)
           \/ CreateRefuses(s) \/ CreateFinds(s) \/ FinalizeEnds(s)
           \/ Breaks(s)
    PROVE  /\ UNCHANGED rows
           /\ tool'[s].at \notin {"held", "settled"}
           /\ \A t \in Sessions \ {s} : tool'[t] = tool[t]
<1> DEFINE Out == /\ tool'[s].at \notin {"held", "settled"}
                  /\ \A t \in Sessions \ {s} : tool'[t] = tool[t]
<1>1. UNCHANGED rows
  BY DEF Start, ResolveService, ResolveDatetime, SelectBookingSlot, CheckAvailability,
         CheckEnds, CheckFails, FindAlternatives, FindEnds, Flushes, Prepare, PrepareEnds,
         PrepareFails, Finalize, FinalCheck, FinalCheckFails, CreateRefuses, CreateFinds,
         FinalizeEnds, Breaks, unbooked, untouched
<1>2. ASSUME NEW c, Leaves(s, c) PROVE Out
  BY <1>2 DEF Leaves, Idle, TypeInv, TypeOK
<1>3. ASSUME NEW place \in Tools \cup {"checking", "finding", "preparing", "prepared",
                                       "final_check"}, Goes(s, place)
      PROVE  Out
  BY <1>3 DEF Goes, TypeInv, TypeOK, Works, Tools
<1>4. ASSUME NEW place \in {"preparing", "booking"}, NEW k, NEW m,
             \/ tool' = [tool EXCEPT ![s].at = place, ![s].key = k]
             \/ tool' = [tool EXCEPT ![s].at = place, ![s].summary = m]
      PROVE  Out
  BY <1>4 DEF TypeInv, TypeOK, Works
<1>5. CASE \E t \in Tools : Start(s, t)
  BY <1>1, <1>3, <1>5 DEF Start
<1>6. CASE \/ ResolveService(s) \/ ResolveDatetime(s) \/ SelectBookingSlot(s)
           \/ CheckEnds(s) \/ CheckFails(s) \/ FindEnds(s) \/ PrepareEnds(s)
           \/ PrepareFails(s) \/ FinalCheckFails(s) \/ CreateRefuses(s) \/ CreateFinds(s)
           \/ FinalizeEnds(s) \/ Breaks(s)
  <2>1. \E c : Leaves(s, c)
    BY <1>6 DEF ResolveService, ResolveDatetime, SelectBookingSlot, CheckEnds, CheckFails,
         FindEnds, PrepareEnds, PrepareFails, FinalCheckFails, CreateRefuses, CreateFinds,
         FinalizeEnds, Breaks, Done, Fails, Escapes
  <2> QED BY <1>1, <1>2, <2>1
<1>7. CASE CheckAvailability(s) \/ FindAlternatives(s) \/ Flushes(s) \/ Finalize(s)
  <2>1. \/ \E c : Leaves(s, c)
        \/ \E place \in {"checking", "finding", "prepared", "final_check"} : Goes(s, place)
    BY <1>7 DEF CheckAvailability, FindAlternatives, Flushes, Finalize, Fails, Done
  <2> QED BY <1>1, <1>2, <1>3, <2>1
<1>8. CASE Prepare(s)
  <2>1. \/ \E c : Leaves(s, c)
        \/ \E m : tool' = [tool EXCEPT ![s].at = "preparing", ![s].summary = m]
    BY <1>8 DEF Prepare, Fails
  <2> QED BY <1>1, <1>2, <1>4, <2>1
<1>9. CASE FinalCheck(s)
  <2>1. \/ \E c : Leaves(s, c)
        \/ \E k : tool' = [tool EXCEPT ![s].at = "booking", ![s].key = k]
    BY <1>9 DEF FinalCheck, Done
  <2> QED BY <1>1, <1>2, <1>4, <2>1
<1> QED BY <1>1, <1>5, <1>6, <1>7, <1>8, <1>9

\* create() changes the row of its own key, and no other.
LEMMA CreateHolders ==
    ASSUME TypeInv, Holders, NEW s \in Sessions,
           CreateHolds(s) \/ CreateConfirms(s) \/ CreateFails(s)
    PROVE  Holders' /\ \A k : Row(k, "confirmed") => Row(k, "confirmed")'
<1> DEFINE key == tool[s].key
<1>1. \A r \in rows : r = [key |-> r.key, made |-> r.made, status |-> r.status]
  BY DEF TypeInv, TypeOK
<1>2. CASE CreateHolds(s)
  <2> DEFINE new == [key |-> key, made |-> Material(mine[s]), status |-> "pending"]
  <2>1. rows' = rows \cup {new} /\ \A r \in rows : r.key # key
    BY <1>2 DEF CreateHolds
  <2>2. /\ tool'[s].at = "held" /\ tool'[s].key = key
        /\ \A t \in Sessions \ {s} : tool'[t] = tool[t]
    BY <1>2 DEF CreateHolds, Goes, TypeInv, TypeOK, Works
  <2>3. new.key = key /\ new.status = "pending"
    OBVIOUS
  <2> HIDE DEF new, key
  <2>4. \A t \in Sessions \ {s} : tool[t].at = "held" => tool[t].key # key
    BY <2>1 DEF Holders, Row
  <2>5. \A q, r \in rows' : q.key = r.key => q = r
    BY <2>1, <2>3 DEF Holders
  <2>6. \A k, x : Row(k, x) => Row(k, x)'
    BY <2>1 DEF Row
  <2>7. Row(tool[s].key, "pending")'
    BY <2>1, <2>2, <2>3 DEF Row
  <2> QED BY <2>2, <2>4, <2>5, <2>6, <2>7 DEF Holders
<1>3. CASE CreateConfirms(s) \/ CreateFails(s)
  <2>1. PICK x \in {"confirmed", "failed"} :
          /\ RowBecomes(key, x) \/ UNCHANGED rows
          /\ x = "confirmed" => RowBecomes(key, x) /\ tool'[s].at = "settled"
          /\ x = "failed" => tool'[s].at = "idle"
          /\ x = "confirmed" => tool'[s].key = key
    BY <1>3 DEF CreateConfirms, CreateFails, Done, Leaves, Idle, Goes, TypeInv, TypeOK, Works
  <2>2. tool[s].at = "held" /\ \A t \in Sessions \ {s} : tool'[t] = tool[t]
    BY <1>3 DEF CreateConfirms, CreateFails, At, Done, Leaves, Goes, TypeInv, TypeOK
  <2> HIDE DEF key
  <2>3. PICK r0 \in rows : r0.key = key /\ r0.status = "pending"
    BY <2>2 DEF Holders, Row, key
  <2>4. \A r \in rows : r.key = key => r = r0
    BY <2>3 DEF Holders
  <2>5. CASE UNCHANGED rows /\ x = "failed"
    <3>1. \A k, y : Row(k, y) <=> Row(k, y)'
      BY <2>5 DEF Row
    <3> QED BY <2>1, <2>2, <2>5, <3>1 DEF Holders
  <2>6. CASE RowBecomes(key, x)
    <3> DEFINE new == [key |-> key, made |-> r0.made, status |-> x]
    <3>1. rows' = (rows \ {r0}) \cup {new}
      <4> DEFINE f(r) == [r EXCEPT !.status = IF r.key = key THEN x ELSE r.status]
      <4>1. rows' = {f(r) : r \in rows}
        BY <2>6 DEF RowBecomes
      <4>2. f(r0) = new
        BY <1>1, <2>3
      <4>3. \A r \in rows \ {r0} : f(r) = r
        BY <1>1, <2>4
      <4> HIDE DEF f, new
      <4> QED BY <2>3, <4>1, <4>2, <4>3
    <3>2. new.key = key /\ new.status = x
      OBVIOUS
    <3> HIDE DEF new
    <3>3. \A q, r \in rows' : q.key = r.key => q = r
      BY <2>4, <3>1, <3>2 DEF Holders
    <3>4. \A k, y : k # key /\ Row(k, y) => \E r \in rows' : r.key = k /\ r.status = y
      BY <2>3, <3>1 DEF Row
    <3>5. ~Row(key, "confirmed")
      BY <2>3, <2>4 DEF Row
    <3>6. \E r \in rows' : r.key = key /\ r.status = x
      BY <3>1, <3>2
    <3>7. ASSUME NEW t \in Sessions \ {s}, tool[t].at \in {"held", "settled"}
          PROVE  tool[t].key # key
      BY <2>2, <3>5, <3>7 DEF Holders, key
    <3>8. ASSUME NEW t \in Sessions
          PROVE  /\ tool'[t].at = "held" => Row(tool[t].key, "pending")'
                 /\ tool'[t].at = "settled" => Row(tool[t].key, "confirmed")'
      <4>1. CASE t = s
        BY <2>1, <3>6, <4>1 DEF Row
      <4>2. CASE t # s
        <5>1. tool'[t] = tool[t]
          BY <2>2, <4>2
        <5>2. \A y : Row(tool[t].key, y) /\ tool[t].at \in {"held", "settled"}
                => \E r \in rows' : r.key = tool[t].key /\ r.status = y
          BY <3>4, <3>7, <4>2 DEF Row
        <5> QED BY <5>1, <5>2 DEF Holders, Row
      <4> QED BY <4>1, <4>2
    <3>9. tool'[s].at # "held"
      BY <2>1
    <3>10. \A k : Row(k, "confirmed") => Row(k, "confirmed")'
      BY <3>4, <3>5 DEF Row
    <3>11. \A t, u \in Sessions :
            tool'[t].at = "held" /\ tool'[u].at = "held" /\ tool'[t].key = tool'[u].key => t = u
      BY <2>2, <3>9 DEF Holders
    <3> QED BY <3>3, <3>8, <3>10, <3>11 DEF Holders
  <2> QED BY <2>1, <2>5, <2>6
<1> QED BY <1>2, <1>3

LEMMA HoldersStep ==
    ASSUME TypeInv, Holders, [Next]_vars
    PROVE  Holders' /\ \A k : Row(k, "confirmed") => Row(k, "confirmed")'
<1>1. CASE UNCHANGED vars
  BY <1>1 DEF vars, Holders, Row
<1>2. ASSUME NEW s \in Sessions, UNCHANGED rows, tool'[s].at \notin {"held", "settled"},
             \A t \in Sessions \ {s} : tool'[t] = tool[t]
      PROVE  Holders' /\ \A k : Row(k, "confirmed") => Row(k, "confirmed")'
  <2>1. \A k, y : Row(k, y) <=> Row(k, y)'
    BY <1>2 DEF Row
  <2> QED BY <1>2, <2>1 DEF Holders
<1>3. CASE Loads
  BY <1>3, LoadsOnly DEF Holders, Row
<1> QED BY <1>1, <1>2, <1>3, OutsideCreate, CreateHolders DEF Next

\* The session keeps a changed copy, or only moves on.
LEMMA KeepsKept ==
    ASSUME TypeInv, Copies, NEW s \in Sessions, NEW c,
           UNCHANGED <<ctx, rows, read>>, mine' = [mine EXCEPT ![s] = c],
           c.booking = mine[s].booking, c.state # "booking_confirmed"
    PROVE  Copies'
<1>1. /\ mine'[s] = c /\ \A t \in Sessions \ {s} : mine'[t] = mine[t]
      /\ ctx' = ctx /\ read' = read /\ rows' = rows
  BY DEF TypeInv, TypeOK
<1>2. /\ Sound(ctx) /\ Sound(c) /\ c.booking = read[s].booking
      /\ c.booking # None => Row(ctx.booking, "confirmed")
  BY DEF Copies, Sound
<1>3. \A k : Row(k, "confirmed") => Row(k, "confirmed")'
  BY <1>1 DEF Row
<1>4. /\ Sound(ctx)' /\ Sound(mine[s])'
      /\ Row(ctx.booking, "confirmed") => Row(ctx.booking, "confirmed")'
      /\ mine'[s].booking # None => Row(ctx.booking, "confirmed")'
  BY <1>1, <1>2 DEF Sound, Row
<1>5. mine'[s].booking = read'[s].booking
  BY <1>1, <1>2
<1> QED BY <1>1, <1>3, <1>4, <1>5, CopiesKept

\* A step that leaves the row and the copies alone.
LEMMA RestKept ==
    ASSUME Copies, UNCHANGED <<ctx, mine, read>>,
           \A k : Row(k, "confirmed") => Row(k, "confirmed")'
    PROVE  Copies'
<1>1. \A k : Row(k, "confirmed") => \E r \in rows' : r.key = k /\ r.status = "confirmed"
  BY DEF Row
<1>2. Sound(ctx)' /\ \A s \in Sessions : Sound(mine[s])'
  BY <1>1 DEF Copies, Sound, Row
<1>3. \A s \in Sessions : mine[s].booking # None => Row(ctx.booking, "confirmed")'
  BY <1>1 DEF Copies, Row
<1> QED BY <1>2, <1>3 DEF Copies

\* The tools before the summary end with a sound row.
LEMMA ToolsEnd ==
    ASSUME TypeInv, Copies, NEW s \in Sessions,
           \/ ResolveService(s) \/ ResolveDatetime(s) \/ SelectBookingSlot(s)
           \/ CheckEnds(s) \/ CheckFails(s) \/ FindEnds(s) \/ Breaks(s)
    PROVE  Ends(s)
<1>1. mine[s] \in Contexts
  BY DEF TypeInv, TypeOK
<1>2. ASSUME NEW c, NEW signed, Done(s, c, signed), "booking" \notin signed,
             c.booking = mine[s].booking, c.state # "booking_confirmed"
      PROVE  Ends(s)
  BY <1>2, OtherFits, DoneEnds
<1>3. CASE Fails(s) \/ Escapes(s)
  BY <1>3, FailsEnds, EscapesEnds
<1>4. CASE ResolveService(s) /\ ~Fails(s)
  <2>1. PICK service : Done(s, ServiceSelected(mine[s], service), {})
    BY <1>4 DEF ResolveService
  <2>2. /\ ServiceSelected(mine[s], service).booking = mine[s].booking
        /\ ServiceSelected(mine[s], service).state # "booking_confirmed"
    BY <1>1 DEF ServiceSelected, Contexts
  <2> QED BY <1>2, <2>1, <2>2
<1>5. CASE ResolveDatetime(s) /\ ~Fails(s)
  <2> DEFINE c(w) == [mine[s] EXCEPT !.state = "date_time_resolving", !.wish = w,
                         !.time = None, !.slot = None, !.offered = {}, !.digest = None]
  <2>1. PICK w : Done(s, c(w), {})
    BY <1>5 DEF ResolveDatetime
  <2>2. c(w).booking = mine[s].booking /\ c(w).state # "booking_confirmed"
    BY <1>1 DEF Contexts
  <2> HIDE DEF c
  <2> QED BY <1>2, <2>1, <2>2
<1>6. CASE SelectBookingSlot(s) /\ ~Fails(s)
  <2> DEFINE c(x) == [mine[s] EXCEPT !.state = "slot_rechecking", !.slot = x,
                         !.time = x.time, !.digest = None]
  <2>1. PICK x : Done(s, c(x), {})
    BY <1>6 DEF SelectBookingSlot
  <2>2. c(x).booking = mine[s].booking /\ c(x).state # "booking_confirmed"
    BY <1>1 DEF Contexts
  <2> HIDE DEF c
  <2> QED BY <1>2, <2>1, <2>2
<1>7. CASE CheckEnds(s)
  <2> DEFINE e == [service |-> mine[s].service, time |-> mine[s].wish]
             a == [mine[s] EXCEPT !.state = "slot_available", !.time = e.time,
                     !.slot = e, !.offered = {e}]
             b(o) == [mine[s] EXCEPT !.state = "alternatives_available", !.time = None,
                     !.slot = None, !.offered = o]
  <2>1. Done(s, a, {"slot", "offered"}) \/ \E o : Done(s, b(o), {"offered"})
    BY <1>7 DEF CheckEnds
  <2>2. /\ a.booking = mine[s].booking /\ a.state # "booking_confirmed"
        /\ \A o : b(o).booking = mine[s].booking /\ b(o).state # "booking_confirmed"
    BY <1>1 DEF Contexts
  <2> HIDE DEF a, b
  <2> QED BY <1>2, <2>1, <2>2
<1>8. CASE FindEnds(s) /\ ~Fails(s)
  <2> DEFINE c(o) == [mine[s] EXCEPT !.state = "alternatives_available", !.offered = o]
  <2>1. PICK o : Done(s, c(o), {"offered"})
    BY <1>8 DEF FindEnds
  <2>2. c(o).booking = mine[s].booking /\ c(o).state # "booking_confirmed"
    BY <1>1 DEF Contexts
  <2> HIDE DEF c
  <2> QED BY <1>2, <2>1, <2>2
<1> QED BY <1>3, <1>4, <1>5, <1>6, <1>7, <1>8 DEF CheckFails, Breaks

\* So do prepare() and finalize(), where they end.
LEMMA AnswersEnd ==
    ASSUME TypeInv, BookedInv, NEW s \in Sessions,
           \/ PrepareEnds(s) \/ PrepareFails(s) \/ FinalCheckFails(s) \/ CreateRefuses(s)
           \/ CreateFinds(s) \/ CreateFails(s) \/ FinalizeEnds(s)
    PROVE  Ends(s)
<1>1. ctx \in Contexts /\ mine[s] \in Contexts /\ Copies
  BY DEF TypeInv, TypeOK, BookedInv
<1>2. ASSUME NEW c, NEW signed, Done(s, c, signed), "booking" \notin signed,
             c.booking = mine[s].booking, c.state # "booking_confirmed"
      PROVE  Ends(s)
  BY <1>1, <1>2, OtherFits, DoneEnds
<1>3. CASE Fails(s)
  BY <1>1, <1>3, FailsEnds
<1>4. CASE PrepareEnds(s)
  <2> DEFINE p == Prepared(mine[s], tool[s].summary)
             c == [mine[s] EXCEPT !.state = "alternatives_available", !.slot = None,
                    !.time = None, !.digest = None]
  <2>1. Done(s, p, {"slot"}) \/ Done(s, c, {})
    BY <1>4 DEF PrepareEnds
  <2>2. /\ p.booking = mine[s].booking /\ p.state # "booking_confirmed"
        /\ c.booking = mine[s].booking /\ c.state # "booking_confirmed"
    BY <1>1 DEF Prepared, Contexts
  <2> HIDE DEF p, c
  <2> QED BY <1>2, <2>1, <2>2
<1>5. CASE CreateRefuses(s) /\ ~Fails(s)
  <2> DEFINE c(x) == [mine[s] EXCEPT !.state = x]
             r == [ctx EXCEPT !.state = "alternatives_available"]
  <2>1. \/ \E x \in {"alternatives_available", "booking_failed"} : Done(s, c(x), {})
        \/ Leaves(s, r)
    BY <1>5 DEF CreateRefuses
  <2>2. /\ \A x \in {"alternatives_available", "booking_failed"} :
            c(x).booking = mine[s].booking /\ c(x).state # "booking_confirmed"
        /\ r.booking = ctx.booking /\ r.state # "booking_confirmed"
    BY <1>1 DEF Contexts
  <2> HIDE DEF c, r
  <2>3. Sound(r) /\ (Row(ctx.booking, "confirmed") => Row(r.booking, "confirmed"))
    BY <1>1, <2>2 DEF Copies, Sound, Row
  <2> QED BY <1>2, <2>1, <2>2, <2>3 DEF Ends
<1>6. CASE CreateFinds(s) \/ FinalizeEnds(s)
  <2>1. Row(tool[s].key, "confirmed") /\ Done(s, Booked(s, tool[s].key), {})
    BY <1>6 DEF CreateFinds, FinalizeEnds, At, BookedInv, Holders
  <2> QED BY <1>1, <2>1, BookedFits, DoneEnds
<1>7. CASE CreateFails(s)
  <2> DEFINE c == [mine[s] EXCEPT !.state = "booking_failed"]
  <2>1. Done(s, c, {})
    BY <1>7 DEF CreateFails
  <2>2. c.booking = mine[s].booking /\ c.state # "booking_confirmed"
    BY <1>1 DEF Contexts
  <2> HIDE DEF c
  <2> QED BY <1>2, <2>1, <2>2
<1> QED BY <1>3, <1>4, <1>5, <1>6, <1>7 DEF PrepareFails, FinalCheckFails

\* A tool that goes on keeps or commits a sound copy.
LEMMA GoesOn ==
    ASSUME TypeInv, Copies, NEW s \in Sessions,
           \/ \E t \in Tools : Start(s, t)
           \/ CheckAvailability(s) \/ FindAlternatives(s) \/ Flushes(s) \/ Prepare(s)
           \/ Finalize(s) \/ FinalCheck(s)
    PROVE  Copies'
<1>1. ctx \in Contexts /\ mine[s] \in Contexts
  BY DEF TypeInv, TypeOK
<1>2. rows' = rows /\ \A k : Row(k, "confirmed") <=> Row(k, "confirmed")'
  BY OutsideCreate DEF Row
<1>3. CASE Ends(s)
  BY <1>2, <1>3, EndsKept
<1>4. ASSUME NEW c, Fit(s, c), NEW signed, "booking" \notin signed, Commits(s, c, signed)
      PROVE  Copies'
  BY <1>2, <1>4, CommitsKept
<1>5. CASE \E t \in Tools : Start(s, t)
  <2>1. /\ ctx' = ctx /\ mine'[s] = ctx /\ read'[s] = ctx
        /\ \A t \in Sessions \ {s} : mine'[t] = mine[t] /\ read'[t] = read[t]
    BY <1>5 DEF Start, TypeInv, TypeOK
  <2>2. Sound(ctx)
    BY DEF Copies
  <2>3. /\ Sound(ctx)' /\ Sound(mine[s])'
        /\ Row(ctx.booking, "confirmed") => Row(ctx.booking, "confirmed")'
        /\ mine'[s].booking # None => Row(ctx.booking, "confirmed")'
    BY <1>2, <2>1, <2>2 DEF Sound, Row
  <2> QED BY <1>2, <2>1, <2>3, CopiesKept
<1>6. CASE CheckAvailability(s)
  <2> DEFINE c == [mine[s] EXCEPT !.state = "availability_checking"]
  <2>1. Fails(s) \/ Keeps(s, c)
    BY <1>6 DEF CheckAvailability
  <2>2. c.booking = mine[s].booking /\ c.state # "booking_confirmed"
    BY <1>1 DEF Contexts
  <2> HIDE DEF c
  <2> QED BY <1>2, <1>3, <2>1, <2>2, FailsEnds, KeepsKept DEF Keeps
<1>7. CASE FindAlternatives(s)
  <2>1. Fails(s) \/ UNCHANGED <<ctx, mine, read>>
    BY <1>7 DEF FindAlternatives
  <2> QED BY <1>2, <1>3, <2>1, FailsEnds, RestKept
<1>8. CASE Flushes(s)
  BY <1>4, <1>8, MineFits DEF Flushes
<1>9. CASE Prepare(s)
  <2> DEFINE d == IF mine[s].state = "awaiting_confirmation" THEN None ELSE mine[s].digest
             c == [mine[s] EXCEPT !.state = "slot_rechecking", !.digest = d]
  <2>1. Fails(s) \/ Keeps(s, c)
    BY <1>9 DEF Prepare, Fails
  <2>2. c.booking = mine[s].booking /\ c.state # "booking_confirmed"
    BY <1>1 DEF Contexts
  <2> HIDE DEF c
  <2> QED BY <1>2, <1>3, <2>1, <2>2, FailsEnds, KeepsKept DEF Keeps
<1>10. CASE Finalize(s)
  <2> DEFINE a == [mine[s] EXCEPT !.state = "date_time_resolving"]
             b == [mine[s] EXCEPT !.state = "final_check_running"]
  <2>1. Fails(s) \/ Done(s, a, {}) \/ Commits(s, b, {})
    BY <1>10 DEF Finalize
  <2>2. /\ a.booking = mine[s].booking /\ a.state # "booking_confirmed"
        /\ b.booking = mine[s].booking /\ b.state # "booking_confirmed"
    BY <1>1 DEF Contexts
  <2> HIDE DEF a, b
  <2>3. Fit(s, a) /\ Fit(s, b)
    BY <2>2, OtherFits
  <2> QED BY <1>3, <1>4, <2>1, <2>3, FailsEnds, DoneEnds
<1>11. CASE FinalCheck(s)
  <2> DEFINE k == [version |-> mine[s].version, summary |-> mine[s].digest]
             c == [mine[s] EXCEPT !.slot = [service |-> mine[s].service, time |-> mine[s].time]]
             a == [mine[s] EXCEPT !.state = "alternatives_available"]
             b == [c EXCEPT !.state = "booking_confirmed", !.booking = k]
             r == [c EXCEPT !.state = "booking_running"]
  <2>1. \/ Done(s, a, {})
        \/ Row(k, "confirmed") /\ Done(s, b, {"slot"})
        \/ Commits(s, r, {"slot"})
    BY <1>11 DEF FinalCheck
  <2>2. /\ a.booking = mine[s].booking /\ a.state # "booking_confirmed"
        /\ r.booking = mine[s].booking /\ r.state # "booking_confirmed"
        /\ b.booking = k
    BY <1>1 DEF Contexts
  <2> HIDE DEF a, b, c, r, k
  <2>3. Fit(s, a) /\ Fit(s, r) /\ (Row(k, "confirmed") => Fit(s, b))
    BY <2>2, OtherFits DEF Fit, Sound
  <2> QED BY <1>3, <1>4, <2>1, <2>3, DoneEnds
<1> QED BY <1>5, <1>6, <1>7, <1>8, <1>9, <1>10, <1>11

LEMMA BookedStep ==
    ASSUME TypeInv, BookedInv, [Next]_vars
    PROVE  BookedInv'
<1>1. Copies /\ Holders' /\ \A k : Row(k, "confirmed") => Row(k, "confirmed")'
  BY HoldersStep DEF BookedInv
<1>2. CASE UNCHANGED vars
  BY <1>1, <1>2, RestKept DEF vars, BookedInv
<1>3. ASSUME NEW s \in Sessions, CreateHolds(s) \/ CreateConfirms(s) PROVE Copies'
  BY <1>1, <1>3, RestKept DEF CreateHolds, CreateConfirms
<1>4. ASSUME NEW s \in Sessions, Ends(s) PROVE Copies'
  BY <1>1, <1>4, EndsKept
<1>5. CASE Loads
  <2>1. UNCHANGED <<mine, read, rows>> /\ ctx \in Contexts
    BY <1>5, LoadsOnly DEF TypeInv, TypeOK
  <2>2. ctx'.booking = ctx.booking /\ ctx'.state \in {ctx.state} \cup Loaded
    BY <1>5, <2>1, LoadsOnly DEF Overwrites, Contexts, Loaded
  <2>3. \A k, y : Row(k, y) <=> Row(k, y)'
    BY <2>1 DEF Row
  <2>4. Sound(ctx)'
    BY <1>1, <2>2, <2>3 DEF Copies, Sound, Loaded
  <2>5. ASSUME NEW s \in Sessions
        PROVE  /\ Sound(mine[s])' /\ mine'[s].booking = read'[s].booking
               /\ mine'[s].booking # None => Row(ctx.booking, "confirmed")'
    <3>1. /\ Sound(mine[s]) /\ mine[s].booking = read[s].booking
          /\ mine[s].booking # None => Row(ctx.booking, "confirmed")
      BY <1>1 DEF Copies
    <3> QED BY <2>1, <2>2, <2>3, <3>1 DEF Sound
  <2> QED BY <1>1, <2>4, <2>5 DEF Copies, BookedInv
<1> QED BY <1>1, <1>2, <1>3, <1>4, <1>5, ToolsEnd, AnswersEnd, GoesOn DEF Next, BookedInv

-----------------------------------------------------------------------------
(* The inductive invariant, and what follows from it *)

\* A booking is tried only after a version was agreed to.
Tried == ctx.state = "booking_running" => agreed # {}

\* A commit takes the state from the copy or leaves it.
LEMMA CommittedState ==
    ASSUME TypeInv, NEW s \in Sessions, NEW c, NEW signed
    PROVE  Committed(s, c, signed).state \in {c.state, ctx.state}
<1>1. "state" \in DOMAIN ctx
  BY DEF TypeInv, TypeOK, Contexts
<1> QED BY <1>1 DEF Committed

LEMMA TriedStep ==
    ASSUME TypeInv, Safe, AgreedInv, Tried, [Next]_vars
    PROVE  Tried'
<1>1. \A s \in Sessions : mine[s] \in Contexts
  BY DEF TypeInv, TypeOK
<1>2. ASSUME ctx'.state = ctx.state, agreed' = agreed PROVE Tried'
  BY <1>2 DEF Tried
<1>3. ASSUME NEW s \in Sessions, NEW c, NEW signed, Done(s, c, signed) \/ Commits(s, c, signed),
             c.state # "booking_running", agreed \subseteq agreed'
      PROVE  Tried'
  <2>1. ctx' = Committed(s, c, signed)
    BY <1>3 DEF Done, Leaves, Commits
  <2> QED BY <1>3, <2>1, CommittedState DEF Tried
<1>4. ASSUME NEW s \in Sessions, Fails(s), agreed' = agreed PROVE Tried'
  BY <1>2, <1>4 DEF Fails, Leaves
<1>5. CASE UNCHANGED vars
  BY <1>2, <1>5 DEF vars
<1>6. CASE Loads
  BY <1>2, <1>6, LoadsOnly DEF Overwrites, TypeInv, TypeOK, Contexts, Tried
<1>7. ASSUME NEW s \in Sessions,
             \/ \E t \in Tools : Start(s, t)
             \/ CheckAvailability(s) \/ FindAlternatives(s) \/ Prepare(s)
             \/ PrepareFails(s) \/ FinalCheckFails(s) \/ Breaks(s)
             \/ CreateHolds(s) \/ CreateConfirms(s)
      PROVE  Tried'
  <2>1. agreed' = agreed /\ ctx' = ctx
    BY <1>7 DEF Start, CheckAvailability, FindAlternatives, Prepare, PrepareFails,
         FinalCheckFails, Breaks, CreateHolds, CreateConfirms, Fails, Leaves, Keeps, unbooked
  <2> QED BY <1>2, <2>1
<1>8. ASSUME NEW s \in Sessions,
             \/ ResolveService(s) \/ ResolveDatetime(s) \/ CheckEnds(s) \/ FindEnds(s)
             \/ SelectBookingSlot(s) \/ PrepareEnds(s)
      PROVE  Tried'
  <2>1. agreed' = agreed
    BY <1>8 DEF ResolveService, ResolveDatetime, CheckEnds, FindEnds, SelectBookingSlot,
         PrepareEnds, unbooked
  <2> DEFINE c1(x) == ServiceSelected(mine[s], x)
             c2(x) == [mine[s] EXCEPT !.state = "date_time_resolving", !.wish = x,
                         !.time = None, !.slot = None, !.offered = {}, !.digest = None]
             e == [service |-> mine[s].service, time |-> mine[s].wish]
             c3 == [mine[s] EXCEPT !.state = "slot_available", !.time = e.time,
                     !.slot = e, !.offered = {e}]
             c4(x) == [mine[s] EXCEPT !.state = "alternatives_available", !.time = None,
                     !.slot = None, !.offered = x]
             c5(x) == [mine[s] EXCEPT !.state = "alternatives_available", !.offered = x]
             c6(x) == [mine[s] EXCEPT !.state = "slot_rechecking", !.slot = x,
                         !.time = x.time, !.digest = None]
             c7 == Prepared(mine[s], tool[s].summary)
             c8 == [mine[s] EXCEPT !.state = "alternatives_available", !.slot = None,
                    !.time = None, !.digest = None]
  <2>2. \/ Fails(s)
        \/ \E x : \/ Done(s, c1(x), {}) \/ Done(s, c2(x), {}) \/ Done(s, c4(x), {"offered"})
                 \/ Done(s, c5(x), {"offered"}) \/ Done(s, c6(x), {})
        \/ Done(s, c3, {"slot", "offered"}) \/ Done(s, c7, {"slot"}) \/ Done(s, c8, {})
    BY <1>8 DEF ResolveService, ResolveDatetime, CheckEnds, FindEnds, SelectBookingSlot,
         PrepareEnds
  <2>3. /\ \A x : /\ c1(x).state # "booking_running" /\ c2(x).state # "booking_running"
                 /\ c4(x).state # "booking_running" /\ c5(x).state # "booking_running"
                 /\ c6(x).state # "booking_running"
        /\ c3.state # "booking_running" /\ c7.state # "booking_running"
        /\ c8.state # "booking_running"
    BY <1>1 DEF ServiceSelected, Prepared, Contexts
  <2> HIDE DEF c1, c2, c3, c4, c5, c6, c7, c8
  <2> QED BY <1>3, <1>4, <2>1, <2>2, <2>3
<1>9. ASSUME NEW s \in Sessions, CheckFails(s) \/ Flushes(s) PROVE Tried'
  <2>1. agreed' = agreed /\ tool[s].at \in {"checking", "preparing"}
    BY <1>9 DEF CheckFails, Flushes, At, unbooked
  <2>2. mine[s].state # "booking_running"
    BY <2>1 DEF Safe, Story
  <2>3. Fails(s) \/ Done(s, mine[s], {}) \/ Commits(s, mine[s], {})
    BY <1>9 DEF CheckFails, Flushes, Escapes, Fails, Done
  <2> QED BY <1>3, <1>4, <2>1, <2>2, <2>3
<1>10. ASSUME NEW s \in Sessions, Finalize(s) PROVE Tried'
  <2> DEFINE a == [mine[s] EXCEPT !.state = "date_time_resolving"]
             b == [mine[s] EXCEPT !.state = "final_check_running"]
  <2>1. \/ Fails(s) /\ agreed' = agreed
        \/ Done(s, a, {}) /\ agreed' = agreed
        \/ Commits(s, b, {}) /\ agreed \subseteq agreed'
    BY <1>10 DEF Finalize
  <2>2. a.state # "booking_running" /\ b.state # "booking_running"
    BY <1>1 DEF Contexts
  <2> HIDE DEF a, b
  <2> QED BY <1>3, <1>4, <2>1, <2>2
<1>11. ASSUME NEW s \in Sessions, FinalCheck(s) PROVE Tried'
  BY <1>11 DEF FinalCheck, At, AgreedInv, unbooked, Tried
<1>12. ASSUME NEW s \in Sessions, CreateRefuses(s) PROVE Tried'
  <2> DEFINE c(x) == [mine[s] EXCEPT !.state = x]
             q == [ctx EXCEPT !.state = "alternatives_available"]
  <2>1. agreed' = agreed
    BY <1>12 DEF CreateRefuses, unbooked
  <2>2. \/ Fails(s) \/ Leaves(s, q)
        \/ \E x \in {"alternatives_available", "booking_failed"} : Done(s, c(x), {})
    BY <1>12 DEF CreateRefuses
  <2>3. /\ q.state # "booking_running"
        /\ \A x \in {"alternatives_available", "booking_failed"} : c(x).state # "booking_running"
    BY <1>1 DEF Contexts, TypeInv, TypeOK
  <2> HIDE DEF c, q
  <2>4. Leaves(s, q) => Tried'
    BY <2>3 DEF Leaves, Tried
  <2> QED BY <1>3, <1>4, <2>1, <2>2, <2>3, <2>4
<1>13. ASSUME NEW s \in Sessions, CreateFinds(s) \/ CreateFails(s) \/ FinalizeEnds(s) PROVE Tried'
  <2>1. /\ tool[s].at \in {"booking", "held", "settled"} /\ agreed' = agreed
    BY <1>13 DEF CreateFinds, CreateFails, FinalizeEnds, At, unbooked
  <2>2. agreed # {}
    BY <2>1 DEF AgreedInv
  <2> QED BY <2>1, <2>2 DEF Tried
<1> QED BY <1>5, <1>6, <1>7, <1>8, <1>9, <1>10, <1>11, <1>12, <1>13 DEF Next

IInv == TypeInv /\ AgreedInv /\ BookedInv /\ (Sequential => Safe /\ Tried)

LEMMA InductiveInit == Init => IInv
<1> SUFFICES ASSUME Init PROVE IInv
  OBVIOUS
<1>1. "idle" \notin Tools
  BY DEF Tools
<1>2. Alone /\ \A s \in Sessions : Story(s)
  BY <1>1 DEF Init, Idle, Alone, Story
<1>3. Summed /\ BookedRows /\ Accepted /\ Tried
  BY DEF Init, Blank, Summed, Awaited, VersionNamesSummary, BookedRows, NoneConfirmed, Accepted,
         ServiceSelectable, Tried
<1>4. AgreedInv
  BY DEF Init, Idle, AgreedInv, OnlyAgreedBooked
<1>5. BookedInv
  BY DEF Init, Idle, Blank, BookedInv, Copies, Sound, Holders
<1> QED BY <1>2, <1>3, <1>4, <1>5, TypeInit DEF IInv, Safe

LEMMA ChannelKept == [Next]_vars => channel' = channel
BY DEF Next, vars, Start, ResolveService, ResolveDatetime, CheckAvailability, CheckEnds,
       CheckFails, FindAlternatives, FindEnds, SelectBookingSlot, Flushes, Prepare,
       PrepareEnds, PrepareFails, Finalize, FinalCheck, FinalCheckFails, CreateRefuses,
       CreateFinds, CreateHolds, CreateConfirms, CreateFails, FinalizeEnds, Breaks,
       Loads, BootstrapStarts, Bootstrap, BootstrapEnds, BootstrapFails, unbooked, untouched

LEMMA InductiveStep == IInv /\ [Next]_vars => IInv'
<1> SUFFICES ASSUME IInv, [Next]_vars PROVE IInv'
  OBVIOUS
<1>1. channel' = channel
  BY ChannelKept
<1>2. Sequential' <=> Sequential
  BY <1>1 DEF Sequential
<1> QED BY <1>2, TypeStep, SafeStep, AgreedStep, BookedStep, TriedStep DEF IInv

\* The inductive invariant of the conversation's tools holds in every state.
THEOREM Inductive == Spec => []IInv
BY InductiveInit, InductiveStep, PTL DEF Spec

\* While tools run one at a time, beside the bootstrap of a browser call, every booking
\* is of the summary told under its version, for any number of services, times and
\* customers.
THEOREM AsTold == Spec => []BookedAsTold
<1>1. IInv => BookedAsTold
  BY DEF IInv, Safe, BookedRows, BookedAsTold
<1> QED BY <1>1, Inductive, PTL

\* While tools run one at a time, beside the bootstrap of a browser call, a call makes
\* at most one confirmed booking, unless the bootstrap wrote its state over a booking
\* that ran or was confirmed.
THEOREM OnceConfirmed == Spec => []OneBookingPerCall
<1>1. IInv => OneBookingPerCall
  BY DEF IInv, Safe, BookedRows, OneBookingPerCall
<1> QED BY <1>1, Inductive, PTL

\* However tools overlap, a booking has a version that was agreed to in finalize().
THEOREM AgreedBooked == Spec => []OnlyAgreedBooked
<1>1. IInv => OnlyAgreedBooked
  BY DEF IInv, AgreedInv
<1> QED BY <1>1, Inductive, PTL

\* However tools overlap, booking_confirmed stands for a row that is confirmed.
THEOREM ConfirmedStands == Spec => []BookedMeansConfirmed
<1>1. IInv => BookedMeansConfirmed
  BY DEF IInv, BookedInv, Copies, Sound, BookedMeansConfirmed
<1> QED BY <1>1, Inductive, PTL

\* However tools overlap, what is said to be booked is confirmed and was agreed to.
THEOREM ConfirmedAgreed == Spec => []ConfirmedAndAgreed
<1>1. BookedMeansConfirmed /\ OnlyAgreedBooked => ConfirmedAndAgreed
  BY DEF ConfirmedAndAgreed
<1> QED BY <1>1, ConfirmedStands, AgreedBooked, PTL

\* While tools run one at a time, beside the bootstrap of a browser call, prepare()
\* gives every summary its own version.
THEOREM OneSummary == Spec => []YesMeansOneSummary
<1>1. IInv => YesMeansOneSummary
  BY DEF IInv, Safe, Summed, YesMeansOneSummary
<1> QED BY <1>1, Inductive, PTL

\* While tools run one at a time, beside the bootstrap of a browser call, only a tool
\* that broke off leaves a state from which no service can be chosen.
THEOREM NeverStuck == Spec => []NoDeadEnd
<1>1. IInv => NoDeadEnd
  <2>1. ASSUME Resting, NEW s \in Sessions PROVE Owner(tool[s].at) = "none"
    BY <2>1 DEF Resting, Owner
  <2> QED BY <2>1 DEF IInv, Safe, Accepted, Stuck, NoDeadEnd, Resting
<1> QED BY <1>1, Inductive, PTL

-----------------------------------------------------------------------------
(* The conversation implements the agreement *)

Said == ctx.state = "booking_confirmed"
Bookings == {Booking(r) : r \in rows}

\* What the customer sees of a conversation whose tools run one at a time.
LEMMA SeenAlone ==
    ASSUME Sequential, Sequential'
    PROVE  /\ Seen(told, {}) = told /\ Seen(told, {})' = told'
           /\ Seen(agreed, {}) = agreed /\ Seen(agreed, {})' = agreed'
           /\ Seen({Booking(r) : r \in rows}, {}) = Bookings
           /\ Seen({Booking(r) : r \in rows}, {})' = Bookings'
           /\ Seen(ctx.state = "booking_confirmed", FALSE) = Said
           /\ Seen(ctx.state = "booking_confirmed", FALSE)' = Said'
           /\ Seen(reopened, FALSE) = reopened /\ Seen(reopened, FALSE)' = reopened'
BY DEF Seen, Bookings, Said

\* A booking is of the offer its key names.
LEMMA BookingFacts ==
    ASSUME TypeOK, BookedRows, NEW r \in rows
    PROVE  Booking(r) = [offer |-> r.key, status |-> r.status]
<1>1. r.key \in Keys /\ r.made = r.key.summary
  BY DEF TypeOK, BookedRows
<1>2. r.key = [version |-> r.key.version, summary |-> r.key.summary]
  BY <1>1 DEF Keys
<1> QED BY <1>1, <1>2 DEF Booking

LEMMA NoneBooked ==
    ASSUME Sequential, TypeOK, BookedRows
    PROVE  Agreement!Booked <=> ~NoneConfirmed
<1>1. Agreement!Booked <=> \E b \in Bookings : b.status = "confirmed"
  BY DEF Agreement!Booked, Seen, Bookings
<1>2. \A r \in rows : Booking(r).status = r.status
  BY BookingFacts
<1> QED BY <1>1, <1>2 DEF Bookings, NoneConfirmed

\* Without a confirmed booking, or after it was written over, the agreement is open.
LEMMA OpenSeen ==
    ASSUME Sequential, Sequential', TypeOK, BookedRows, NoneConfirmed \/ reopened
    PROVE  Agreement!Open
BY NoneBooked, SeenAlone DEF Agreement!Open

\* What changes nothing but the dialogue is no step, or the announcement.
LEMMA DialogueSeen ==
    ASSUME Sequential, Sequential', TypeOK, BookedRows, BookedRows',
           UNCHANGED <<told, agreed, rows, reopened>>, Said => Said'
    PROVE  [Agreement!Next]_(Agreement!vars)
<1>1. Bookings' = Bookings
  BY DEF Bookings, Booking
<1>2. CASE Said' = Said
  <2>1. UNCHANGED Agreement!vars
    BY <1>1, <1>2, SeenAlone DEF Agreement!vars
  <2> QED BY <2>1
<1>3. CASE ~Said /\ Said'
  <2>1. Row(ctx'.booking, "confirmed")
    BY <1>3 DEF BookedRows, Said, Row
  <2>2. Agreement!Booked
    BY <2>1, NoneBooked DEF Row, NoneConfirmed
  <2>3. Agreement!Announce
    BY <1>1, <1>3, <2>2, SeenAlone DEF Agreement!Announce
  <2> QED BY <2>3 DEF Agreement!Next
<1> QED BY <1>2, <1>3 DEF Said

\* After the announcement every tool fails.
LEMMA SaidStays ==
    ASSUME TypeInv, Safe, [Next]_vars, ~Loads, Said
    PROVE  Said'
<1>1. CASE UNCHANGED vars
  BY <1>1 DEF vars, Said
<1>2. ASSUME NEW s \in Sessions, Fails(s) PROVE Said'
  BY <1>2 DEF Fails, Leaves, Said
<1>3. ASSUME NEW s \in Sessions, tool[s].at # "idle"
      PROVE  tool[s].at \in Tools /\ mine[s].state = "booking_confirmed"
  <2>1. read[s].state = "booking_confirmed"
    BY <1>3 DEF Safe, Alone, Kept, Said, Loaded
  <2>2. tool[s].at \in Tools \cup Awaits
    BY <1>3 DEF TypeInv, TypeOK, Works
  <2> QED BY <2>1, <2>2 DEF Safe, Story, Awaits
<1>4. ASSUME NEW s \in Sessions, NEW t \in Tools, Start(s, t) PROVE Said'
  BY <1>4 DEF Start, Said
<1>5. ASSUME NEW s \in Sessions,
             \/ ResolveService(s) \/ ResolveDatetime(s) \/ CheckAvailability(s)
             \/ FindAlternatives(s) \/ SelectBookingSlot(s) \/ Prepare(s) \/ Finalize(s)
      PROVE  Said'
  <2>1. tool[s].at # "idle"
    BY <1>5 DEF ResolveService, ResolveDatetime, CheckAvailability, FindAlternatives,
                SelectBookingSlot, Prepare, Finalize, At
  <2>2. mine[s].state = "booking_confirmed"
    BY <1>3, <2>1
  <2>3. Fails(s)
    BY <1>5, <2>2 DEF ResolveService, ResolveDatetime, CheckAvailability, FindAlternatives,
         SelectBookingSlot, Prepare, Finalize, ServiceSelectable, Reopened, DateOpen
  <2> QED BY <1>2, <2>3
<1>6. ASSUME NEW s \in Sessions,
             \/ CheckEnds(s) \/ CheckFails(s) \/ FindEnds(s) \/ Flushes(s)
             \/ PrepareEnds(s) \/ PrepareFails(s) \/ FinalCheck(s) \/ FinalCheckFails(s)
             \/ CreateRefuses(s) \/ CreateFinds(s) \/ CreateHolds(s) \/ CreateConfirms(s)
             \/ CreateFails(s) \/ FinalizeEnds(s)
      PROVE  FALSE
  <2>1. tool[s].at \in Awaits
    BY <1>6 DEF CheckEnds, CheckFails, FindEnds, Flushes, PrepareEnds, PrepareFails,
                FinalCheck, FinalCheckFails, CreateRefuses, CreateFinds, CreateHolds,
                CreateConfirms, CreateFails, FinalizeEnds, At, Awaits
  <2>2. tool[s].at # "idle" /\ tool[s].at \notin Tools
    BY <2>1 DEF Awaits, Tools
  <2> QED BY <1>3, <2>2
<1>7. ASSUME NEW s \in Sessions, Breaks(s) PROVE Said'
  BY <1>2, <1>7 DEF Breaks
<1> QED BY <1>1, <1>4, <1>5, <1>6, <1>7 DEF Next

\* The bootstrap is not seen, or it reopens the conversation.
LEMMA LoadsSeen ==
    ASSUME IInv, Safe, Safe', Sequential, Sequential', Loads
    PROVE  [Agreement!Next]_(Agreement!vars)
<1>1. /\ TypeOK /\ BookedRows /\ BookedRows' /\ UNCHANGED <<rows, told, agreed>>
      /\ ctx \in Contexts /\ reopened \in BOOLEAN
  BY LoadsOnly DEF IInv, TypeInv, TypeOK, Safe
<1>2. CASE UNCHANGED <<ctx, reopened>>
  BY <1>1, <1>2, DialogueSeen DEF Said
<1>3. ASSUME NEW state \in Loaded, Overwrites(state)
      PROVE  [Agreement!Next]_(Agreement!vars)
  <2>1. ctx'.state = state /\ ~Said'
    BY <1>1, <1>3 DEF Overwrites, Contexts, Said, Loaded
  <2>2. CASE ctx.state \notin {"booking_running", "booking_confirmed"}
    <3>1. ~Said /\ UNCHANGED reopened
      BY <1>1, <1>3, <2>2 DEF Overwrites, Said
    <3> QED BY <1>1, <2>1, <3>1, DialogueSeen
  <2>3. CASE ctx.state \in {"booking_running", "booking_confirmed"}
    <3>1. reopened' = TRUE
      BY <1>3, <2>3 DEF Overwrites
    <3>2. agreed # {}
      BY <2>3 DEF IInv, Tried, AgreedInv, OnlyAgreedBooked, Safe, BookedRows, Row
    <3>3. Bookings' = Bookings
      BY <1>1 DEF Bookings, Booking
    <3>4. Seen(ctx.state = "booking_confirmed", FALSE)' = FALSE
      BY <2>1 DEF Seen, Said
    <3>5. Agreement!Reopen
      BY <1>1, <3>1, <3>2, <3>3, <3>4, SeenAlone DEF Agreement!Reopen
    <3> QED BY <3>5 DEF Agreement!Next
  <2> QED BY <2>2, <2>3
<1> QED BY <1>2, <1>3, LoadsOnly DEF IInv, Loaded

\* A summary that is told again is the one told last.
LEMMA PrepareTells ==
    ASSUME TypeInv, Safe, NEW s \in Sessions, Prepare(s)
    PROVE  UNCHANGED <<told, agreed, rows, reopened>>
<1>1. Awaited(mine[s]) /\ UNCHANGED <<agreed, rows, reopened>>
  BY DEF Prepare, At, Safe, Story, Tools, untouched
<1>2. ASSUME NEW customer \in Customers, mine[s].state = "awaiting_confirmation",
             mine[s].digest =
                [service |-> mine[s].service, time |-> mine[s].time, customer |-> customer]
      PROVE  [version |-> mine[s].version,
              summary |-> [service |-> mine[s].service, time |-> mine[s].time,
                           customer |-> customer]] \in told
  BY <1>1, <1>2 DEF Awaited, Key
<1>3. UNCHANGED told \/ \E customer \in Customers :
        /\ mine[s].state = "awaiting_confirmation"
        /\ mine[s].digest =
                [service |-> mine[s].service, time |-> mine[s].time, customer |-> customer]
        /\ told' = told \cup {[version |-> mine[s].version,
              summary |-> [service |-> mine[s].service, time |-> mine[s].time,
                           customer |-> customer]]}
  BY DEF Prepare
<1>4. told' = told
  BY <1>2, <1>3
<1> QED BY <1>1, <1>4

\* A new summary is an offer above the older ones.
LEMMA PrepareEndsSeen ==
    ASSUME IInv, Safe, Safe', Sequential, Sequential', NEW s \in Sessions, PrepareEnds(s),
           Said => Said'
    PROVE  [Agreement!Next]_(Agreement!vars)
<1>1. /\ TypeInv /\ TypeOK /\ BookedRows /\ BookedRows' /\ UNCHANGED <<agreed, rows, reopened>>
  BY DEF IInv, TypeInv, Safe, PrepareEnds, untouched
<1>2. CASE UNCHANGED told
  BY <1>1, <1>2, DialogueSeen
<1>3. CASE ~UNCHANGED told
  <2> DEFINE p == Prepared(mine[s], tool[s].summary)
             k == [version |-> p.version, summary |-> p.digest]
  <2>1. Done(s, p, {"slot"}) /\ told' = told \cup {k}
    BY <1>3 DEF PrepareEnds
  <2>2. /\ mine[s] \in Contexts /\ tool[s] \in Works /\ tool[s].at = "prepared"
        /\ Place(tool[s], mine[s])
    BY <1>1 DEF TypeInv, TypeOK, Places, PrepareEnds, At
  <2>3. p \in Contexts /\ k \in Keys
    BY <2>2, PreparedType
  <2>4. /\ mine[s].version = ctx.version /\ mine[s].version < MaxVersion
        /\ read[s].state \in {"awaiting_confirmation", "slot_available", "slot_rechecking"}
    BY <2>2 DEF Safe, Story
  <2>5. p.version = mine[s].version + 1 /\ p.state = "awaiting_confirmation"
    BY <2>2 DEF Prepared, Contexts
  <2>6. ~Said /\ ~Said'
    <3> HIDE DEF p, k
    <3>1. PICK row \in Contexts : Leaves(s, row) /\ Kept(row, p)
      BY <1>1, <2>1, <2>2, <2>3, DoneAlone
    <3>2. ~Said'
      BY <2>5, <3>1 DEF Leaves, Kept, Loaded, Said
    <3>3. Kept(ctx, read[s])
      BY <2>2 DEF Safe, Alone
    <3> QED BY <2>4, <3>2, <3>3 DEF Kept, Loaded, Said
  <2>7. k.version = mine[s].version + 1 /\ k.summary \in Summaries
    BY <2>3, <2>5 DEF Keys
  <2>8. mine[s].version \in Nat
    BY <2>2 DEF Contexts
  <2> HIDE DEF p, k
  <2>9. k.version \in 1..MaxVersion
    BY <2>4, <2>7, <2>8, MaxVersionAssumption
  <2>10. k \in [version : 1..MaxVersion, summary : Summaries]
    BY <2>3, <2>7, <2>9 DEF Keys
  <2>11. \A l \in told : l.version \in Nat /\ l.version <= mine[s].version
    BY <1>1, <2>4 DEF Safe, Summed, TypeOK, Keys
  <2>12. \A l \in told : l.version < k.version
    BY <2>7, <2>8, <2>11
  <2>13. Agreement!Open
    BY <1>1, <2>2, <2>4, Unconfirmed, OpenSeen
  <2>14. Bookings' = Bookings /\ Said' = Said
    BY <1>1, <2>6 DEF Bookings, Booking, Said
  <2>15. Agreement!Offer(k)
    BY <1>1, <2>1, <2>12, <2>13, <2>14, SeenAlone DEF Agreement!Offer
  <2> QED BY <2>10, <2>15 DEF Agreement!Next
<1> QED BY <1>2, <1>3

\* An answer is to the newest offer.
LEMMA FinalizeSeen ==
    ASSUME IInv, Safe, Safe', Sequential, Sequential', NEW s \in Sessions, Finalize(s),
           Said => Said'
    PROVE  [Agreement!Next]_(Agreement!vars)
<1> DEFINE c == mine[s]
<1>1. /\ TypeInv /\ TypeOK /\ BookedRows /\ BookedRows' /\ UNCHANGED <<told, rows, reopened>>
      /\ tool[s].at = "finalize" /\ c \in Contexts
  BY DEF IInv, TypeInv, TypeOK, Safe, Finalize, At, untouched
<1>2. c = read[s] /\ Awaited(c) /\ c.version = ctx.version /\ Kept(ctx, c)
  BY <1>1 DEF Safe, Story, Alone, Tools
<1>3. CASE UNCHANGED agreed
  BY <1>1, <1>3, DialogueSeen
<1>4. CASE ~UNCHANGED agreed
  <2> DEFINE b == [mine[s] EXCEPT !.state = "final_check_running"]
  <2>1. /\ c.state = "awaiting_confirmation" /\ Commits(s, b, {})
        /\ agreed' = agreed \cup {c.version}
    BY <1>1, <1>4 DEF Finalize, CurrentVersion
  <2>2. b \in Contexts /\ b.state = "final_check_running"
    BY <1>1 DEF Contexts, States, Allowed
  <2> HIDE DEF b
  <2>3. ctx'.state = "final_check_running"
    BY <1>1, <1>2, <2>1, <2>2, CommitsAlone
  <2>4. Key(c) \in told /\ Key(c).version = ctx.version
    BY <1>2, <2>1 DEF Awaited, Key
  <2>5. Agreement!Newest(Key(c))
    BY <2>4, SeenAlone DEF Safe, Summed, Agreement!Newest
  <2>6. Agreement!Open
    BY <1>1, <1>2, <2>1, Unconfirmed, OpenSeen
  <2>7. Bookings' = Bookings /\ Said' = Said
    BY <1>1, <1>2, <2>1, <2>3 DEF Bookings, Booking, Said, Kept, Loaded
  <2>8. Agreement!Agree(Key(c))
    BY <1>1, <1>2, <2>1, <2>4, <2>5, <2>6, <2>7, SeenAlone DEF Agreement!Agree
  <2> QED BY <2>4, <2>8, SeenAlone DEF Agreement!Next
<1> QED BY <1>3, <1>4

\* create() books the offer that was agreed to, which is the newest.
LEMMA BookingNewest ==
    ASSUME IInv, Safe, Sequential, Sequential', NEW s \in Sessions,
           tool[s].at \in {"booking", "held"}
    PROVE  /\ Agreement!Newest(tool[s].key) /\ tool[s].key \in told
           /\ tool[s].key.version \in agreed
           /\ Agreement!Open /\ ~Said
<1>1. /\ tool[s].key \in told /\ tool[s].key.version = ctx.version
      /\ read[s].state = "booking_running" /\ (NoneConfirmed \/ reopened)
      /\ Kept(ctx, read[s])
  BY DEF Safe, Story, Alone
<1>2. tool[s].key.version \in agreed
  BY DEF IInv, AgreedInv
<1>3. Agreement!Newest(tool[s].key)
  BY <1>1, SeenAlone DEF Safe, Summed, Agreement!Newest
<1>4. Agreement!Open /\ ~Said
  BY <1>1, OpenSeen DEF IInv, TypeInv, Safe, Said, Kept, Loaded
<1> QED BY <1>1, <1>2, <1>3, <1>4

LEMMA HoldSeen ==
    ASSUME IInv, Safe, Sequential, Sequential', NEW s \in Sessions, CreateHolds(s)
    PROVE  [Agreement!Next]_(Agreement!vars)
<1> DEFINE k == tool[s].key
           n == [key |-> k, made |-> Material(mine[s]), status |-> "pending"]
<1>1. /\ TypeOK /\ BookedRows /\ tool[s].at = "booking" /\ k \in Keys
      /\ k.summary = Material(mine[s]) /\ UNCHANGED <<ctx, told, agreed, reopened>>
      /\ rows' = rows \cup {n} /\ \A r \in rows : r.key # k
  BY DEF IInv, TypeInv, Places, Place, Safe, Story, CreateHolds, At, untouched
<1>2. Booking(n) = [offer |-> k, status |-> "pending"]
  <2>1. k = [version |-> k.version, summary |-> k.summary]
    BY <1>1 DEF Keys
  <2>2. n.key = k /\ n.made = k.summary /\ n.status = "pending"
    BY <1>1
  <2> HIDE DEF k, n
  <2> QED BY <2>1, <2>2 DEF Booking
<1> HIDE DEF k, n
<1>3. \A r \in rows : Booking(r).offer = r.key
  BY <1>1, BookingFacts
<1>4. \A b \in Bookings : b.offer # k
  BY <1>1, <1>3 DEF Bookings
<1>5. Bookings' = Bookings \cup {[offer |-> k, status |-> "pending"]}
  <2>1. Bookings' = {Booking(r) : r \in rows'}
    BY DEF Bookings, Booking
  <2> QED BY <1>1, <1>2, <2>1 DEF Bookings
<1>6. Agreement!Hold(k) /\ k \in told
  BY <1>1, <1>4, <1>5, BookingNewest, SeenAlone DEF Agreement!Hold, k, Said
<1> QED BY <1>6, SeenAlone DEF Agreement!Next

LEMMA SettleSeen ==
    ASSUME IInv, Safe, Sequential, Sequential', NEW s \in Sessions, tool[s].at = "held",
           NEW status \in {"confirmed", "failed"}, RowBecomes(tool[s].key, status),
           UNCHANGED <<told, agreed, reopened>>, ~Said'
    PROVE  [Agreement!Next]_(Agreement!vars)
<1> DEFINE k == tool[s].key
           new(r) == [r EXCEPT !.status = IF r.key = k THEN status ELSE r.status]
           was == [offer |-> k, status |-> "pending"]
           is == [offer |-> k, status |-> status]
<1>1. TypeOK /\ BookedRows /\ rows' = {new(r) : r \in rows}
  BY DEF IInv, TypeInv, Safe, RowBecomes
<1>2. PICK h \in rows : h.key = k /\ h.status = "pending"
  BY DEF Safe, Story, Row
<1>3. ASSUME NEW r \in rows
      PROVE  /\ Booking(r) = [offer |-> r.key, status |-> r.status]
             /\ Booking(new(r)) = (IF r.key = k THEN is ELSE Booking(r))
  <2>1. Booking(r) = [offer |-> r.key, status |-> r.status]
    BY <1>1, BookingFacts
  <2>2. /\ new(r).key = r.key /\ new(r).made = r.made
        /\ new(r).status = (IF r.key = k THEN status ELSE r.status)
    BY <1>1 DEF TypeOK
  <2>3. Booking(new(r)) = [offer |-> [version |-> r.key.version, summary |-> r.made],
                           status |-> IF r.key = k THEN status ELSE r.status]
    BY <2>2 DEF Booking
  <2>4. [version |-> r.key.version, summary |-> r.made] = r.key
    BY <2>1 DEF Booking
  <2> HIDE DEF new, k
  <2> QED BY <2>1, <2>3, <2>4
<1>4. \A r \in rows : r.key = k => r = h
  BY <1>1, <1>2 DEF BookedRows
<1> HIDE DEF k, new
<1>5. Bookings' = {Booking(new(r)) : r \in rows}
  <2>1. Bookings' = {Booking(r) : r \in rows'}
    BY DEF Bookings, Booking
  <2> QED BY <1>1, <2>1
<1>6. was \in Bookings
  BY <1>2, <1>3 DEF Bookings
<1>7. Bookings' = (Bookings \ {was}) \cup {is}
  <2>1. ASSUME NEW r \in rows PROVE Booking(new(r)) \in (Bookings \ {was}) \cup {is}
    <3>1. CASE r.key = k
      BY <1>3, <3>1
    <3>2. CASE r.key # k
      BY <1>3, <3>2 DEF Bookings
    <3> QED BY <3>1, <3>2
  <2>2. ASSUME NEW r \in rows, Booking(r) # was PROVE Booking(r) \in Bookings'
    <3>1. r.key # k
      BY <1>2, <1>3, <1>4, <2>2
    <3> QED BY <1>3, <1>5, <3>1
  <2>3. is \in Bookings'
    BY <1>2, <1>3, <1>5
  <2> HIDE DEF was, is
  <2> QED BY <1>5, <2>1, <2>2, <2>3 DEF Bookings
<1>8. Agreement!Settle(k, status) /\ k \in told
  BY <1>6, <1>7, BookingNewest, SeenAlone DEF Agreement!Settle, k, Said
<1> QED BY <1>8, SeenAlone DEF Agreement!Next

LEMMA CreateSeen ==
    ASSUME IInv, Safe, Safe', Sequential, Sequential', NEW s \in Sessions,
           CreateConfirms(s) \/ CreateFails(s), Said => Said'
    PROVE  [Agreement!Next]_(Agreement!vars)
<1>1. /\ tool[s].at = "held" /\ UNCHANGED <<told, agreed, reopened>> /\ TypeInv /\ TypeOK
      /\ mine[s] \in Contexts /\ BookedRows /\ BookedRows'
      /\ read[s].state = "booking_running"
  BY DEF CreateConfirms, CreateFails, At, IInv, TypeInv, TypeOK, Safe, Story, untouched
<1>2. ~Said
  BY <1>1, BookingNewest
<1>3. CASE CreateConfirms(s)
  <2>1. RowBecomes(tool[s].key, "confirmed") /\ ~Said'
    BY <1>2, <1>3 DEF CreateConfirms, Said
  <2> QED BY <1>1, <2>1, SettleSeen
<1>4. CASE CreateFails(s)
  <2> DEFINE c == [mine[s] EXCEPT !.state = "booking_failed"]
  <2>1. Done(s, c, {}) /\ (RowBecomes(tool[s].key, "failed") \/ UNCHANGED rows)
    BY <1>4 DEF CreateFails
  <2>2. c \in Contexts /\ c.state = "booking_failed"
    BY <1>1 DEF Contexts, States, Allowed
  <2> HIDE DEF c
  <2>3. PICK row : Leaves(s, row) /\ row.state = "booking_failed"
    BY <1>1, <2>1, <2>2, DoneAlone
  <2>4. ~Said'
    BY <2>3 DEF Leaves, Said
  <2>5. CASE RowBecomes(tool[s].key, "failed")
    BY <1>1, <2>4, <2>5, SettleSeen
  <2>6. CASE UNCHANGED rows
    BY <1>1, <1>2, <2>6, DialogueSeen
  <2> QED BY <2>1, <2>5, <2>6
<1> QED BY <1>3, <1>4

LEMMA AgreementStep ==
    IInv /\ IInv' /\ [Next]_vars => [Agreement!Next]_(Agreement!vars)
<1> SUFFICES ASSUME IInv, IInv', [Next]_vars PROVE [Agreement!Next]_(Agreement!vars)
  OBVIOUS
<1>1. Sequential' <=> Sequential
  BY ChannelKept DEF Sequential
<1>2. CASE ~Sequential
  <2>1. UNCHANGED Agreement!vars
    BY <1>1, <1>2 DEF Agreement!vars, Seen
  <2> QED BY <2>1
<1>3. CASE Sequential
  <2>1. Sequential' /\ Safe /\ Safe' /\ TypeInv /\ TypeOK /\ BookedRows /\ BookedRows'
    BY <1>1, <1>3 DEF IInv, TypeInv, Safe
  <2>2. ~Loads => (Said => Said')
    BY <2>1, SaidStays
  <2>3. ASSUME UNCHANGED <<told, agreed, rows, reopened>>, ~Loads
        PROVE  [Agreement!Next]_(Agreement!vars)
    BY <1>3, <2>1, <2>2, <2>3, DialogueSeen
  <2>4. CASE UNCHANGED vars
    <3>1. UNCHANGED <<told, agreed, rows, reopened>> /\ (Said => Said')
      BY <2>4 DEF vars, Said
    <3> QED BY <1>3, <2>1, <3>1, DialogueSeen
  <2>5. ASSUME NEW s \in Sessions,
               \/ \E t \in Tools : Start(s, t)
               \/ ResolveService(s) \/ ResolveDatetime(s)
               \/ CheckAvailability(s) \/ CheckEnds(s) \/ CheckFails(s)
               \/ FindAlternatives(s) \/ FindEnds(s) \/ SelectBookingSlot(s)
               \/ Flushes(s) \/ PrepareFails(s) \/ FinalCheck(s) \/ FinalCheckFails(s)
               \/ CreateRefuses(s) \/ CreateFinds(s) \/ FinalizeEnds(s) \/ Breaks(s)
        PROVE  UNCHANGED <<told, agreed, rows, reopened>>
    BY <2>5 DEF Start, ResolveService, ResolveDatetime, CheckAvailability, CheckEnds,
         CheckFails, FindAlternatives, FindEnds, SelectBookingSlot, Flushes,
         PrepareFails, FinalCheck, FinalCheckFails, CreateRefuses,
         CreateFinds, FinalizeEnds, Breaks, unbooked, untouched
  <2>6. ASSUME NEW s \in Sessions, Prepare(s) PROVE UNCHANGED <<told, agreed, rows, reopened>>
    BY <2>1, <2>6, PrepareTells
  <2> QED
    BY <1>3, <2>1, <2>2, <2>3, <2>4, <2>5, <2>6, LoadsSeen, PrepareEndsSeen, FinalizeSeen,
       HoldSeen, CreateSeen
    DEF Next
<1> QED BY <1>2, <1>3

LEMMA AgreementInit == Init => Agreement!Init
BY DEF Init, Blank, Agreement!Init, Seen

\* While tools run one at a time, beside the bootstrap of a browser call, for any number
\* of services, times, customers and versions, the conversation implements the
\* agreement: what is booked is the newest summary at the customer's yes, and nothing
\* goes on after a confirmed booking, whose announcement follows it and stands, unless
\* the bootstrap wrote its state over the booking.
THEOREM ConversationImplements == Spec => ImplementsAgreement
<1> QED
  BY AgreementInit, AgreementStep, Inductive, PTL
  DEF Spec, ImplementsAgreement, Agreement!Spec

=============================================================================
