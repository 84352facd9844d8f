------------------------ MODULE CalendarBookingProofs ------------------------
(***************************************************************************)
(* What CalendarBooking keeps for every set of calls, processes, slots,    *)
(* keys and timezones.  IInv is inductive whatever the timezones do; that  *)
(* no call loses its lock needs a timezone that no step changes (Steady),  *)
(* out of however many.                                                    *)
(***************************************************************************)
EXTENDS CalendarBooking, TLAPS

\* Where a call stands before, and after, it inserted its row.
Rowless == {"idle", "checking", "resumed", "searching", "lock_wait", "locked",
            "rechecked", "checked"}
Booking == {"inserted", "creating", "accepted"}
\* Where a call is inside the critical section of its slot.
Critical == {"locked", "rechecked", "checked"}

-----------------------------------------------------------------------------
(* The inductive invariant *)

\* The row of a call follows its place in create(); an event has a row.
Rows ==
    /\ \A r \in Requests : pc[r] \in Rowless => row[r] = "none"
    /\ \A r \in Requests : pc[r] \in Booking => row[r] = "pending"
    /\ \A r \in Requests : (pc[r] = "accepted" \/ row[r] = "confirmed")
                               => \E q \in events : key[q] = key[r]
    /\ \A q \in events : row[q] # "none"
    /\ \A r \in Requests : pc[r] # "done" => reply[r] = "none"

\* The unique constraint on (tenant_id, idempotency_key).
OneRowPerKey ==
    \A r, q \in Requests :
        (row[r] # "none" /\ row[q] # "none" /\ key[r] = key[q]) => r = q

\* A confirmed answer stands for a confirmed row of the key.
ConfirmedRow ==
    \A r \in Requests : reply[r] = "confirmed" =>
        \E q \in Requests : row[q] = "confirmed" /\ key[q] = key[r]

\* One call per event loop is between two awaits of the critical part.
Exclusion ==
    \A r, q \in Requests :
        (r # q /\ Home[r] = Home[q] /\ pc[r] \in Synchronous) => pc[q] \notin Synchronous

\* What the conflict query of a call saw still holds when it inserts, for the
\* bookings of its own process.
CheckedAlone ==
    \A r, q \in Requests :
        (pc[r] = "checked" /\ q \in BlockingRows /\ Home[q] = Home[r])
            => ~Overlaps(slot[q], slot[r])

\* Bookings made in one process do not overlap.
ProcessDisjoint ==
    \A r, q \in BlockingRows :
        (r # q /\ Home[r] = Home[q]) => ~Overlaps(slot[r], slot[q])

\* The same for calls of one slot, by the lock of that slot, while they keep it.
SameSlotKept(r, q) == LockKey(slot[r]) = LockKey(slot[q]) /\ {r, q} \cap lost = {}

HoldsLock ==
    \A r \in Requests :
        (pc[r] \in Critical /\ r \notin lost) => lock[LockKey(slot[r])] = r

CheckedSlot ==
    \A r, q \in Requests :
        (pc[r] = "checked" /\ q \in BlockingRows /\ SameSlotKept(r, q))
            => ~Overlaps(slot[q], slot[r])

SlotDisjoint ==
    \A r, q \in BlockingRows :
        (r # q /\ SameSlotKept(r, q)) => ~Overlaps(slot[r], slot[q])

SlotLocked == HoldsLock /\ CheckedSlot /\ SlotDisjoint

IInv ==
    /\ TypeOK
    /\ Rows
    /\ OneRowPerKey
    /\ ConfirmedRow
    /\ Exclusion
    /\ CheckedAlone
    /\ ProcessDisjoint
    /\ SlotLocked

\* No step of the behaviour changes the company's timezone.
Steady == [][UNCHANGED tenantZone]_vars

\* All that was read, captured or written of the timezone agrees, and no lock was
\* lost to a change of it.
Settled ==
    /\ configZone = tenantZone
    /\ \A r \in Requests : zone[r] = tenantZone
    /\ lost = {}

\* A booking about to be inserted meets none that is kept apart from it.
InsertsApart ==
    \A r \in Requests, q \in BlockingRows :
        pc[r] = "checked" => <<r, q>> \notin KeptApart

-----------------------------------------------------------------------------
(* Types *)

\* Freed or answered, the fields of the state keep their types.
LEMMA LocksWithoutType ==
    ASSUME TypeOK, NEW r \in Requests
    PROVE  LocksWithout(r) \in [LockKeys -> Requests \cup {NoRequest}]
BY DEF LocksWithout, TypeOK

LEMMA LockKeyInLockKeys == ASSUME NEW s \in Slots PROVE LockKey(s) \in LockKeys
BY DEF LockKeys

LEMMA AnswerType ==
    ASSUME TypeOK, NEW r \in Requests, NEW a \in Replies, Answer(r, a)
    PROVE  /\ pc' \in [Requests -> Locations]
           /\ reply' \in [Requests -> Replies]
           /\ lock' \in [LockKeys -> Requests \cup {NoRequest}]
BY LocksWithoutType DEF Answer, Goto, TypeOK, Locations

LEMMA ExistingReplyType == \A k : ExistingReply(k) \in {"confirmed", "duplicate_booking"}
BY DEF ExistingReply

\* Every action keeps the types.
LEMMA TypeStep == TypeOK /\ [Next]_vars => TypeOK'
<1> SUFFICES ASSUME TypeOK, [Next]_vars PROVE TypeOK' OBVIOUS
<1> USE DEF requestVars, zoneVars
<1>1. ASSUME NEW r \in Requests, Begin(r) PROVE TypeOK'
  <2>1. ExistingReply(key[r]) \in Replies /\ "rejected" \in Replies
    BY ExistingReplyType DEF Replies
  <2>2. zone' \in [Requests -> Zones] /\ configZone' \in Zones
    BY <1>1 DEF Begin, TypeOK
  <2>3. /\ pc' \in [Requests -> Locations]
        /\ reply' \in [Requests -> Replies]
        /\ lock' \in [LockKeys -> Requests \cup {NoRequest}]
    BY <1>1, <2>1, AnswerType DEF Begin, TypeOK, Goto, Locations
  <2> QED BY <1>1, <2>2, <2>3 DEF Begin, TypeOK
<1>2. ASSUME NEW r \in Requests, ExternalAnswers(r) PROVE TypeOK'
  <2>1. "rejected" \in Replies BY DEF Replies
  <2> QED BY <1>2, <2>1, AnswerType DEF ExternalAnswers, TypeOK, Goto, Locations
<1>3. ASSUME NEW r \in Requests, ReadLocal(r) PROVE TypeOK'
  BY <1>3 DEF ReadLocal, TypeOK, Goto, Locations
<1>4. ASSUME NEW r \in Requests, SearchEnds(r) PROVE TypeOK'
  <2>1. {"slot_no_longer_available", "rejected"} \subseteq Replies BY DEF Replies
  <2> QED BY <1>4, <2>1, AnswerType DEF SearchEnds, TypeOK
<1>5. ASSUME NEW r \in Requests, LockSlot(r) PROVE TypeOK'
  BY <1>5, LockKeyInLockKeys DEF LockSlot, TypeOK, Goto, Locations
<1>6. ASSUME NEW r \in Requests, Recheck(r) PROVE TypeOK'
  <2>1. ExistingReply(key[r]) \in Replies /\ "rejected" \in Replies
    BY ExistingReplyType DEF Replies
  <2>2. configZone' \in Zones BY <1>6 DEF Recheck, TypeOK
  <2>3. /\ pc' \in [Requests -> Locations]
        /\ reply' \in [Requests -> Replies]
        /\ lock' \in [LockKeys -> Requests \cup {NoRequest}]
    BY <1>6, <2>1, AnswerType, LocksWithoutType DEF Recheck, TypeOK, Goto, Locations
  <2> QED BY <1>6, <2>2, <2>3 DEF Recheck, TypeOK
<1>7. ASSUME NEW r \in Requests, ConflictCheck(r) PROVE TypeOK'
  <2>1. "rejected" \in Replies BY DEF Replies
  <2>2. configZone' \in Zones BY <1>7 DEF ConflictCheck, TypeOK
  <2>3. /\ pc' \in [Requests -> Locations]
        /\ reply' \in [Requests -> Replies]
        /\ lock' \in [LockKeys -> Requests \cup {NoRequest}]
    BY <1>7, <2>1, AnswerType, LocksWithoutType DEF ConflictCheck, TypeOK, Goto, Locations
  <2> QED BY <1>7, <2>2, <2>3 DEF ConflictCheck, TypeOK
<1>8. ASSUME NEW r \in Requests, InsertRow(r) PROVE TypeOK'
  <2>1. ExistingReply(key[r]) \in Replies BY ExistingReplyType DEF Replies
  <2>2. row' \in [Requests -> RowStates] BY <1>8 DEF InsertRow, TypeOK, RowStates
  <2>3. /\ pc' \in [Requests -> Locations]
        /\ reply' \in [Requests -> Replies]
        /\ lock' \in [LockKeys -> Requests \cup {NoRequest}]
    BY <1>8, <2>1, AnswerType, LocksWithoutType DEF InsertRow, TypeOK, Goto, Locations
  <2> QED BY <1>8, <2>2, <2>3 DEF InsertRow, TypeOK
<1>9. ASSUME NEW r \in Requests, GetToken(r) PROVE TypeOK'
  <2>1. "token_error" \in Replies BY DEF Replies
  <2> QED BY <1>9, <2>1, AnswerType DEF GetToken, TypeOK, Goto, Locations
<1>10. ASSUME NEW r \in Requests, ProviderAccepts(r) PROVE TypeOK'
  BY <1>10 DEF ProviderAccepts, TypeOK, Goto, Locations
<1>11. ASSUME NEW r \in Requests, ProviderFails(r) \/ Confirm(r) \/ ConfirmFails(r)
                                  \/ Breaks(r)
       PROVE  TypeOK'
  <2>1. {"calendar_event_creation_failed", "confirmed", "local_confirmation_failed",
         "exception"} \subseteq Replies
    BY DEF Replies
  <2>2. row' \in [Requests -> RowStates]
    BY <1>11 DEF ProviderFails, Confirm, ConfirmFails, Breaks,
                 TypeOK, RowStates
  <2> QED BY <1>11, <2>1, <2>2, AnswerType
      DEF ProviderFails, Confirm, ConfirmFails, Breaks, TypeOK
<1>12. ASSUME NEW p \in Processes, Crash(p) PROVE TypeOK'
  BY <1>12 DEF Crash, TypeOK, Locations, Replies
<1>13. ASSUME NEW z \in Zones, ChangeTimezone(z) PROVE TypeOK'
  BY <1>13 DEF ChangeTimezone, TypeOK
<1>14. CASE UNCHANGED vars
  BY <1>14 DEF vars, TypeOK
<1> QED BY <1>1, <1>2, <1>3, <1>4, <1>5, <1>6, <1>7, <1>8, <1>9, <1>10, <1>11,
           <1>12, <1>13, <1>14 DEF Next, Continue, Runs

\* CalendarBooking: every variable keeps its type.
THEOREM TypeCorrect == Spec => []TypeOK
<1>1. Init => TypeOK
  BY DEF Init, TypeOK, Locations, RowStates, Replies
<1> QED BY <1>1, TypeStep, PTL DEF Spec

-----------------------------------------------------------------------------
(* Rows and keys *)

\* The actions that change rows: the row follows the place, and a key has one.
LEMMA RowsStep ==
    TypeOK /\ Rows /\ OneRowPerKey /\ [Next]_vars => Rows' /\ OneRowPerKey'
<1> SUFFICES ASSUME TypeOK, Rows, OneRowPerKey, [Next]_vars
             PROVE  Rows' /\ OneRowPerKey'
  OBVIOUS
<1> USE DEF requestVars, zoneVars, Rowless, Booking
<1>1. ASSUME NEW r \in Requests,
             \/ Begin(r) \/ ExternalAnswers(r) \/ ReadLocal(r) \/ SearchEnds(r)
             \/ LockSlot(r) \/ Recheck(r) \/ ConflictCheck(r) \/ GetToken(r)
      PROVE  Rows' /\ OneRowPerKey'
  <2>1. UNCHANGED <<key, row, events>>
    BY <1>1 DEF Begin, ExternalAnswers, ReadLocal, SearchEnds, LockSlot, Recheck,
                ConflictCheck, GetToken
  <2>2. \A q \in Requests \ {r} : pc'[q] = pc[q] /\ reply'[q] = reply[q]
    BY <1>1 DEF Begin, ExternalAnswers, ReadLocal, SearchEnds, LockSlot, Recheck,
                ConflictCheck, GetToken, Answer, Goto, TypeOK
  <2>3. \/ pc[r] \in Rowless /\ pc'[r] \in Rowless \cup {"done"}
        \/ pc[r] = "inserted" /\ pc'[r] \in {"creating", "done"}
    BY <1>1 DEF Begin, ExternalAnswers, ReadLocal, SearchEnds, LockSlot, Recheck,
                ConflictCheck, GetToken, Answer, Goto, TypeOK
  <2>4. pc'[r] # "done" => reply'[r] = reply[r] /\ pc[r] # "done"
    BY <1>1 DEF Begin, ExternalAnswers, ReadLocal, SearchEnds, LockSlot, Recheck,
                ConflictCheck, GetToken, Answer, Goto, TypeOK
  <2> QED BY <2>1, <2>2, <2>3, <2>4 DEF Rows, OneRowPerKey
<1>2. ASSUME NEW r \in Requests, InsertRow(r) PROVE Rows' /\ OneRowPerKey'
  <2>1. CASE RowsForKey(key[r]) = {}
    BY <1>2, <2>1 DEF InsertRow, Goto, Rows, OneRowPerKey, RowsForKey, TypeOK
  <2>2. CASE RowsForKey(key[r]) # {}
    BY <1>2, <2>2 DEF InsertRow, Answer, Goto, Rows, OneRowPerKey, TypeOK
  <2> QED BY <2>1, <2>2
<1>3. ASSUME NEW r \in Requests, ProviderAccepts(r) PROVE Rows' /\ OneRowPerKey'
  BY <1>3 DEF ProviderAccepts, Goto, Rows, OneRowPerKey, TypeOK
<1>4. ASSUME NEW r \in Requests, ProviderFails(r) \/ Breaks(r)
                                 \/ Confirm(r) \/ ConfirmFails(r)
      PROVE  Rows' /\ OneRowPerKey'
  <2>1. Rows'
    BY <1>4 DEF ProviderFails, Breaks, Confirm, ConfirmFails,
                Answer, Goto, Rows, TypeOK
  <2>2. OneRowPerKey'
    BY <1>4 DEF ProviderFails, Breaks, Confirm, ConfirmFails,
                Rows, OneRowPerKey, TypeOK
  <2> QED BY <2>1, <2>2
<1>5. ASSUME NEW p \in Processes, Crash(p) PROVE Rows' /\ OneRowPerKey'
  BY <1>5 DEF Crash, Rows, OneRowPerKey, TypeOK
<1>6. ASSUME NEW z \in Zones, ChangeTimezone(z) PROVE Rows' /\ OneRowPerKey'
  BY <1>6 DEF ChangeTimezone, Rows, OneRowPerKey
<1>7. CASE UNCHANGED vars
  BY <1>7 DEF vars, Rows, OneRowPerKey
<1> QED BY <1>1, <1>2, <1>3, <1>4, <1>5, <1>6, <1>7 DEF Next, Continue, Runs

\* A call is answered "confirmed" where it finds, or makes, a confirmed row of
\* its key, and a confirmed row stays one.
LEMMA ConfirmedStep ==
    TypeOK /\ Rows /\ ConfirmedRow /\ [Next]_vars => ConfirmedRow'
<1> SUFFICES ASSUME TypeOK, Rows, ConfirmedRow, [Next]_vars PROVE ConfirmedRow'
  OBVIOUS
<1> USE DEF requestVars, zoneVars
<1>1. \A q \in Requests : row[q] = "confirmed" => row'[q] = "confirmed"
  <2>1. ASSUME NEW r \in Requests, NEW q \in Requests, row[q] = "confirmed",
               InsertRow(r) \/ ProviderFails(r) \/ Confirm(r) \/ ConfirmFails(r)
        PROVE  row'[q] = "confirmed"
    BY <2>1 DEF InsertRow, ProviderFails, Confirm, ConfirmFails, Rows, Rowless,
                Booking, TypeOK
  <2>2. ASSUME NEW r \in Requests, Begin(r) \/ Continue(r),
               ~(InsertRow(r) \/ ProviderFails(r) \/ Confirm(r) \/ ConfirmFails(r))
        PROVE  row' = row
    BY <2>2 DEF Begin, Continue, Runs, ExternalAnswers, ReadLocal, SearchEnds, LockSlot,
                Recheck, ConflictCheck, GetToken, ProviderAccepts,
                Breaks
  <2> QED BY <2>1, <2>2 DEF Next, Crash, ChangeTimezone, vars
<1>2. key' = key
  BY DEF Next, Begin, Continue, Runs, ExternalAnswers, ReadLocal, SearchEnds, LockSlot,
         Recheck, ConflictCheck, GetToken, ProviderAccepts, Breaks,
         InsertRow, ProviderFails, Confirm, ConfirmFails, Crash, ChangeTimezone, vars
<1>3. ASSUME NEW r \in Requests, reply'[r] = "confirmed", reply[r] # "confirmed"
      PROVE  \E q \in Requests : row'[q] = "confirmed" /\ key[q] = key[r]
  <2>1. ASSUME Begin(r) \/ Recheck(r) \/ InsertRow(r)
        PROVE  ExistingReply(key[r]) = "confirmed" /\ row' = row
    BY <1>3, <2>1 DEF Begin, Recheck, InsertRow, Answer, TypeOK, Goto
  <2>2. CASE Begin(r) \/ Recheck(r) \/ InsertRow(r)
    BY <2>1, <2>2 DEF ExistingReply, RowsForKey
  <2>3. CASE Confirm(r)
    BY <2>3 DEF Confirm, TypeOK
  <2>4. ASSUME NEW q \in Requests, Begin(q) \/ Continue(q), q # r
        PROVE  reply'[r] = reply[r]
    BY <2>4 DEF Begin, Continue, Runs, ExternalAnswers, ReadLocal, SearchEnds, LockSlot,
                Recheck, ConflictCheck, GetToken, ProviderAccepts,
                Breaks, InsertRow, ProviderFails, Confirm,
                ConfirmFails, Answer, TypeOK
  <2>5. ASSUME \/ ExternalAnswers(r) \/ ReadLocal(r) \/ SearchEnds(r) \/ LockSlot(r)
               \/ ConflictCheck(r) \/ GetToken(r) \/ ProviderAccepts(r)
               \/ ProviderFails(r) \/ Breaks(r) \/ ConfirmFails(r)
        PROVE  reply'[r] # "confirmed"
    BY <1>3, <2>5 DEF ExternalAnswers, ReadLocal, SearchEnds, LockSlot, ConflictCheck,
                GetToken, ProviderAccepts, ProviderFails, Breaks,
                ConfirmFails, Answer, TypeOK
  <2>6. ASSUME \/ \E p \in Processes : Crash(p)
               \/ \E z \in Zones : ChangeTimezone(z)
               \/ UNCHANGED vars
        PROVE  reply'[r] # "confirmed"
    BY <1>3, <2>6 DEF Crash, ChangeTimezone, vars, TypeOK
  <2> QED BY <1>3, <2>2, <2>3, <2>4, <2>5, <2>6 DEF Next, Continue, Runs
<1> QED BY <1>1, <1>2, <1>3 DEF ConfirmedRow

-----------------------------------------------------------------------------
(* The critical part of create() *)

\* One step brings one call at a time into the part no await interrupts.
LEMMA ExclusionStep == TypeOK /\ Exclusion /\ [Next]_vars => Exclusion'
<1> SUFFICES ASSUME TypeOK, Exclusion, [Next]_vars PROVE Exclusion' OBVIOUS
<1> USE DEF Synchronous
<1>1. ASSUME NEW r \in Requests, ReadLocal(r) PROVE Exclusion'
  BY <1>1 DEF ReadLocal, LoopFree, Goto, Exclusion, TypeOK
<1>2. ASSUME NEW r \in Requests, Begin(r) \/ Continue(r), ~ReadLocal(r)
      PROVE  /\ \A q \in Requests \ {r} : pc'[q] = pc[q]
             /\ pc'[r] \in Synchronous => pc[r] \in Synchronous
  BY <1>2 DEF Begin, Continue, Runs, ExternalAnswers, SearchEnds, LockSlot, Recheck,
              ConflictCheck, InsertRow, GetToken, ProviderAccepts, ProviderFails,
              Breaks, Confirm, ConfirmFails, Answer, Goto, TypeOK
<1>3. ASSUME NEW r \in Requests, Begin(r) \/ Continue(r), ~ReadLocal(r)
      PROVE  Exclusion'
  BY <1>2, <1>3 DEF Exclusion
<1>4. ASSUME NEW p \in Processes, Crash(p) PROVE Exclusion'
  BY <1>4 DEF Crash, Exclusion, TypeOK
<1>5. ASSUME (\E z \in Zones : ChangeTimezone(z)) \/ UNCHANGED vars PROVE Exclusion'
  BY <1>5 DEF ChangeTimezone, vars, Exclusion
<1> QED BY <1>1, <1>3, <1>4, <1>5 DEF Next

\* The payloads of calls never change.
LEMMA PayloadStep == TypeOK /\ [Next]_vars => key' = key /\ slot' = slot
BY DEF Next, Begin, Continue, Runs, ExternalAnswers, ReadLocal, SearchEnds, LockSlot,
       Recheck, ConflictCheck, GetToken, ProviderAccepts, Breaks,
       InsertRow, ProviderFails, Confirm, ConfirmFails, Crash, ChangeTimezone, vars,
       requestVars

\* A lock that was lost before the INSERT stays lost.
LEMMA LostStep == TypeOK /\ [Next]_vars => lost \subseteq lost'
BY DEF Next, Begin, Continue, Runs, ExternalAnswers, ReadLocal, SearchEnds, LockSlot,
       Recheck, ConflictCheck, GetToken, ProviderAccepts, Breaks,
       InsertRow, ProviderFails, Confirm, ConfirmFails, Crash, ChangeTimezone, vars,
       requestVars

\* A row begins to block only when the call that found no conflict inserts it.
LEMMA BlockingStep ==
    ASSUME TypeOK, Rows, [Next]_vars, NEW q \in Requests, q \in BlockingRows'
    PROVE  q \in BlockingRows \/ (pc[q] = "checked" /\ InsertRow(q))
<1> USE DEF requestVars, zoneVars, BlockingRows, Blocking
<1>1. ASSUME NEW r \in Requests, InsertRow(r)
      PROVE  q \in BlockingRows \/ (pc[q] = "checked" /\ InsertRow(q))
  BY <1>1 DEF InsertRow, TypeOK
<1>2. ASSUME NEW r \in Requests, ProviderFails(r) \/ Confirm(r) \/ ConfirmFails(r)
      PROVE  q \in BlockingRows
  BY <1>2 DEF ProviderFails, Confirm, ConfirmFails, Rows, Booking, TypeOK
<1>3. ASSUME NEW r \in Requests,
             \/ Begin(r) \/ ExternalAnswers(r) \/ ReadLocal(r) \/ SearchEnds(r)
             \/ LockSlot(r) \/ Recheck(r) \/ ConflictCheck(r) \/ GetToken(r)
             \/ ProviderAccepts(r) \/ Breaks(r)
      PROVE  q \in BlockingRows
  BY <1>3 DEF Begin, ExternalAnswers, ReadLocal, SearchEnds, LockSlot, Recheck,
              ConflictCheck, GetToken, ProviderAccepts, Breaks
<1> QED BY <1>1, <1>2, <1>3 DEF Next, Continue, Runs, Crash, ChangeTimezone, vars

\* A call is "checked" only after it saw no conflicting row.
LEMMA CheckedEntry ==
    ASSUME TypeOK, [Next]_vars, NEW r \in Requests, pc'[r] = "checked"
    PROVE  \/ pc[r] = "checked"
           \/ ConflictCheck(r) /\ ~LocalConflict(slot[r]) /\ row' = row
<1>1. ASSUME NEW q \in Requests, ConflictCheck(q)
      PROVE  \/ pc[r] = "checked"
             \/ ConflictCheck(r) /\ ~LocalConflict(slot[r]) /\ row' = row
  BY <1>1 DEF ConflictCheck, Answer, Goto, TypeOK
<1>2. ASSUME NEW q \in Requests, Begin(q) \/ Continue(q), ~ConflictCheck(q)
      PROVE  pc[r] = "checked"
  BY <1>2 DEF Begin, Continue, Runs, ExternalAnswers, ReadLocal, SearchEnds, LockSlot,
              Recheck, InsertRow, GetToken, ProviderAccepts, ProviderFails,
              Breaks, Confirm, ConfirmFails, Answer, Goto, TypeOK
<1>3. ASSUME (\E p \in Processes : Crash(p)) \/ (\E z \in Zones : ChangeTimezone(z))
             \/ UNCHANGED vars
      PROVE  pc[r] = "checked"
  BY <1>3 DEF Crash, ChangeTimezone, vars, TypeOK
<1> QED BY <1>1, <1>2, <1>3 DEF Next

LEMMA OverlapsSymmetric ==
    ASSUME NEW s \in Slots, NEW t \in Slots PROVE Overlaps(s, t) <=> Overlaps(t, s)
BY DEF Overlaps

\* A call inserts its row while no other call of its process is in the critical
\* part, and keeps what its conflict query saw.
LEMMA ProcessStep ==
    TypeOK /\ Rows /\ Exclusion /\ CheckedAlone /\ ProcessDisjoint /\ [Next]_vars
        => CheckedAlone' /\ ProcessDisjoint'
<1> SUFFICES ASSUME TypeOK, Rows, Exclusion, CheckedAlone, ProcessDisjoint, [Next]_vars
             PROVE  CheckedAlone' /\ ProcessDisjoint'
  OBVIOUS
<1>1. slot' = slot /\ slot \in [Requests -> Slots]
  BY PayloadStep DEF TypeOK
<1>2. CheckedAlone'
  <2> SUFFICES ASSUME NEW r \in Requests, NEW q \in Requests,
                      pc'[r] = "checked", q \in BlockingRows', Home[q] = Home[r]
               PROVE  ~Overlaps(slot[q], slot[r])
    BY <1>1 DEF CheckedAlone
  <2>1. CASE q \notin BlockingRows
    <3>1. InsertRow(q) /\ pc[q] = "checked"
      BY <2>1, BlockingStep
    <3>2. pc'[q] # "checked"
      BY <3>1 DEF InsertRow, Goto, Answer, TypeOK
    <3>3. q # r /\ pc[r] = "checked"
      BY <3>1, <3>2, CheckedEntry DEF ConflictCheck, InsertRow, Goto, TypeOK,
         Answer, BlockingRows
    <3> QED BY <3>1, <3>3 DEF Exclusion, Synchronous
  <2>2. CASE q \in BlockingRows
    BY <2>2, CheckedEntry DEF CheckedAlone, LocalConflict
  <2> QED BY <2>1, <2>2
<1>3. ProcessDisjoint'
  <2> SUFFICES ASSUME NEW r \in BlockingRows', NEW q \in BlockingRows',
                      r # q, Home[r] = Home[q]
               PROVE  ~Overlaps(slot[r], slot[q])
    BY <1>1 DEF ProcessDisjoint
  <2>1. r \in Requests /\ q \in Requests
    BY DEF BlockingRows
  <2>2. CASE r \in BlockingRows /\ q \in BlockingRows
    BY <2>2 DEF ProcessDisjoint
  <2>3. CASE r \notin BlockingRows
    <3>1. InsertRow(r) /\ pc[r] = "checked"
      BY <2>1, <2>3, BlockingStep
    <3>2. q \in BlockingRows
      BY <2>1, <3>1 DEF InsertRow, BlockingRows, TypeOK
    <3> QED BY <1>1, <2>1, <3>1, <3>2, OverlapsSymmetric DEF CheckedAlone
  <2>4. CASE q \notin BlockingRows
    <3>1. InsertRow(q) /\ pc[q] = "checked"
      BY <2>1, <2>4, BlockingStep
    <3>2. r \in BlockingRows
      BY <2>1, <3>1 DEF InsertRow, BlockingRows, TypeOK
    <3> QED BY <2>1, <3>1, <3>2 DEF CheckedAlone
  <2> QED BY <2>2, <2>3, <2>4
<1> QED BY <1>2, <1>3

\* Only load_rules with another timezone frees a lock between lock and INSERT, and
\* the call that does so has lost it.
LEMMA LockStep == TypeOK /\ HoldsLock /\ [Next]_vars => HoldsLock'
<1> SUFFICES ASSUME TypeOK, HoldsLock, [Next]_vars PROVE HoldsLock' OBVIOUS
<1> USE DEF requestVars, zoneVars, Critical
<1>1. /\ slot' = slot /\ lost \subseteq lost'
      /\ \A r \in Requests : LockKey(slot[r]) \in LockKeys
  BY PayloadStep, LostStep, LockKeyInLockKeys DEF TypeOK
<1>2. ASSUME NEW r \in Requests, LockSlot(r) PROVE HoldsLock'
  BY <1>1, <1>2, NoRequestAssumption DEF LockSlot, Goto, HoldsLock, TypeOK
<1>3. ASSUME NEW r \in Requests, Recheck(r) \/ ConflictCheck(r) \/ InsertRow(r)
      PROVE  HoldsLock'
  <2>1. \/ pc' = [pc EXCEPT ![r] = "rechecked"] /\ pc[r] = "locked" /\ lock' = lock
        \/ /\ pc' = [pc EXCEPT ![r] = "rechecked"] /\ pc[r] = "locked"
           /\ lock' = LocksWithout(r) /\ r \in lost'
        \/ pc' = [pc EXCEPT ![r] = "checked"] /\ pc[r] = "rechecked" /\ lock' = lock
        \/ /\ \E l \in {"done", "searching", "inserted"} : pc' = [pc EXCEPT ![r] = l]
           /\ lock' = LocksWithout(r)
    BY <1>3 DEF Recheck, ConflictCheck, InsertRow, Answer, Goto
  <2> QED BY <1>1, <2>1, NoRequestAssumption DEF LocksWithout, HoldsLock, TypeOK
<1>4. ASSUME NEW r \in Requests,
             \/ Begin(r) \/ ExternalAnswers(r) \/ ReadLocal(r) \/ SearchEnds(r)
             \/ GetToken(r) \/ ProviderAccepts(r) \/ ProviderFails(r)
             \/ Breaks(r) \/ Confirm(r) \/ ConfirmFails(r)
      PROVE  HoldsLock'
  <2>1. /\ lock' \in {lock, LocksWithout(r)}
        /\ pc'[r] \notin Critical
        /\ \A q \in Requests \ {r} : pc'[q] = pc[q]
    BY <1>4 DEF Begin, ExternalAnswers, ReadLocal, SearchEnds, GetToken, TypeOK,
                ProviderAccepts, ProviderFails, Breaks, Confirm,
                ConfirmFails, Answer, Goto
  <2> QED BY <1>1, <2>1 DEF LocksWithout, HoldsLock
<1>5. ASSUME NEW p \in Processes, Crash(p) PROVE HoldsLock'
  BY <1>1, <1>5, NoRequestAssumption DEF Crash, HoldsLock, TypeOK
<1>6. ASSUME (\E y \in Zones : ChangeTimezone(y)) \/ UNCHANGED vars PROVE HoldsLock'
  BY <1>6 DEF ChangeTimezone, vars, HoldsLock
<1> QED BY <1>2, <1>3, <1>4, <1>5, <1>6 DEF Next, Continue, Runs

\* Two calls of one slot are never both past the conflict query.
LEMMA SlotStep ==
    TypeOK /\ Rows /\ SlotLocked /\ [Next]_vars => SlotLocked'
<1> SUFFICES ASSUME TypeOK, Rows, HoldsLock, CheckedSlot, SlotDisjoint, [Next]_vars
             PROVE  CheckedSlot' /\ SlotDisjoint'
  BY LockStep DEF SlotLocked
<1>1. /\ slot' = slot /\ slot \in [Requests -> Slots]
      /\ \A r, q \in Requests : SameSlotKept(r, q)' => SameSlotKept(r, q)
  BY PayloadStep, LostStep DEF TypeOK, SameSlotKept
<1>2. CheckedSlot'
  <2> SUFFICES ASSUME NEW r \in Requests, NEW q \in Requests, pc'[r] = "checked",
                      q \in BlockingRows', SameSlotKept(r, q)
               PROVE  ~Overlaps(slot[q], slot[r])
    BY <1>1 DEF CheckedSlot, BlockingRows
  <2>1. CASE q \notin BlockingRows
    <3>1. InsertRow(q) /\ pc[q] = "checked"
      BY <2>1, BlockingStep
    <3>2. pc'[q] # "checked"
      BY <3>1 DEF InsertRow, Goto, Answer, TypeOK
    <3>3. q # r /\ pc[r] = "checked"
      BY <3>1, <3>2, CheckedEntry DEF ConflictCheck, InsertRow, Goto, TypeOK,
         Answer, BlockingRows
    <3> QED BY <3>1, <3>3 DEF HoldsLock, Critical, SameSlotKept
  <2>2. CASE q \in BlockingRows
    BY <2>2, CheckedEntry DEF CheckedSlot, LocalConflict
  <2> QED BY <2>1, <2>2
<1>3. SlotDisjoint'
  <2> SUFFICES ASSUME NEW r \in BlockingRows', NEW q \in BlockingRows',
                      r # q, SameSlotKept(r, q)
               PROVE  ~Overlaps(slot[r], slot[q])
    BY <1>1 DEF SlotDisjoint, BlockingRows
  <2>1. r \in Requests /\ q \in Requests
    BY DEF BlockingRows
  <2>2. CASE r \in BlockingRows /\ q \in BlockingRows
    BY <2>2 DEF SlotDisjoint
  <2>3. CASE r \notin BlockingRows
    <3>1. InsertRow(r) /\ pc[r] = "checked"
      BY <2>1, <2>3, BlockingStep
    <3>2. q \in BlockingRows
      BY <2>1, <3>1 DEF InsertRow, BlockingRows, TypeOK
    <3> QED BY <1>1, <2>1, <3>1, <3>2, OverlapsSymmetric DEF CheckedSlot, SameSlotKept
  <2>4. CASE q \notin BlockingRows
    <3>1. InsertRow(q) /\ pc[q] = "checked"
      BY <2>1, <2>4, BlockingStep
    <3>2. r \in BlockingRows
      BY <2>1, <3>1 DEF InsertRow, BlockingRows, TypeOK
    <3> QED BY <2>1, <3>1, <3>2 DEF CheckedSlot, SameSlotKept
  <2> QED BY <2>2, <2>3, <2>4
<1> QED BY <1>2, <1>3

-----------------------------------------------------------------------------
(* Theorems for timezones that change as they like *)

LEMMA InitInv == Init => IInv
<1> SUFFICES ASSUME Init PROVE IInv OBVIOUS
<1>1. TypeOK
  BY DEF Init, TypeOK, Locations, RowStates, Replies
<1>2. Rows
  BY DEF Init, Rows, Rowless, Booking
<1>3. OneRowPerKey /\ ConfirmedRow /\ Exclusion /\ CheckedAlone /\ ProcessDisjoint
  BY DEF Init, OneRowPerKey, ConfirmedRow, Exclusion, Synchronous, CheckedAlone,
         ProcessDisjoint, BlockingRows, Blocking
<1>4. SlotLocked
  BY DEF Init, SlotLocked, HoldsLock, Critical, CheckedSlot, SlotDisjoint,
         BlockingRows, Blocking
<1> QED BY <1>1, <1>2, <1>3, <1>4 DEF IInv

LEMMA NextInv == IInv /\ [Next]_vars => IInv'
BY TypeStep, RowsStep, ConfirmedStep, ExclusionStep, ProcessStep, SlotStep DEF IInv

LEMMA Inductive == Spec => []IInv
BY InitInv, NextInv, PTL DEF Spec

\* CalendarBooking: calls of one process, and calls of one interval that kept
\* their advisory lock until they inserted, keep their bookings apart, in any
\* number of processes and whatever the timezones do.
THEOREM SlotsSerialized == Spec => []SerializedBookingsDisjoint
<1>1. IInv => SerializedBookingsDisjoint
  BY DEF IInv, SlotLocked, SameSlotKept, Serialized, ProcessDisjoint, SlotDisjoint,
         SerializedBookingsDisjoint
<1> QED BY <1>1, Inductive, PTL

\* CalendarBooking: a confirmed answer stands for the one row of its key, and
\* the event of that row exists in the provider's calendar, for any number of
\* calls, processes, crashes and provider failures.
THEOREM ConfirmedOnce == Spec => []ConfirmedMeansOneEvent
<1>1. IInv => ConfirmedMeansOneEvent
  <2> SUFFICES ASSUME IInv, NEW r \in Requests, reply[r] = "confirmed"
               PROVE  \E q \in events : row[q] = "confirmed" /\ RowsForKey(key[r]) = {q}
    BY DEF ConfirmedMeansOneEvent
  <2>1. PICK q \in Requests : row[q] = "confirmed" /\ key[q] = key[r]
    BY DEF IInv, ConfirmedRow
  <2>2. PICK e \in events : key[e] = key[q]
    BY <2>1 DEF IInv, Rows
  <2>3. e = q
    BY <2>1, <2>2 DEF IInv, Rows, OneRowPerKey, TypeOK
  <2>4. RowsForKey(key[r]) = {q}
    BY <2>1 DEF IInv, OneRowPerKey, RowsForKey
  <2> QED BY <2>1, <2>2, <2>3, <2>4
<1> QED BY <1>1, Inductive, PTL

\* CalendarBooking: while the backend runs as one process, as its Dockerfile
\* starts it, no two bookings overlap, whatever timezones are configured.
THEOREM OneProcessDisjoint ==
    ASSUME \A r, q \in Requests : Home[r] = Home[q]
    PROVE  Spec => []BookingsDisjoint
<1>1. IInv => BookingsDisjoint
  BY DEF IInv, ProcessDisjoint, BookingsDisjoint, BlockingRows
<1> QED BY <1>1, Inductive, PTL

-----------------------------------------------------------------------------
(* Theorems for a timezone that stays: the advisory lock *)

\* What every step copies of the timezone is what was there.
LEMMA SettledStep ==
    TypeOK /\ Settled /\ [Next]_vars /\ UNCHANGED tenantZone => Settled'
<1> SUFFICES ASSUME TypeOK, Settled, [Next]_vars, UNCHANGED tenantZone PROVE Settled'
  OBVIOUS
<1> USE DEF requestVars, zoneVars
<1>1. ASSUME NEW r \in Requests, Begin(r) PROVE Settled'
  BY <1>1 DEF Begin, Settled, TypeOK
<1>2. ASSUME NEW r \in Requests, ReadLocal(r) \/ Recheck(r) \/ ConflictCheck(r)
      PROVE  Settled'
  BY <1>2 DEF ReadLocal, Recheck, ConflictCheck, Settled
<1>3. ASSUME NEW r \in Requests,
             \/ ExternalAnswers(r) \/ SearchEnds(r) \/ LockSlot(r) \/ InsertRow(r)
             \/ GetToken(r) \/ ProviderAccepts(r) \/ ProviderFails(r)
             \/ Breaks(r) \/ Confirm(r) \/ ConfirmFails(r)
      PROVE  Settled'
  BY <1>3 DEF ExternalAnswers, SearchEnds, LockSlot, InsertRow, GetToken,
              ProviderAccepts, ProviderFails, Breaks, Confirm, ConfirmFails, Settled
<1>4. ASSUME (\E p \in Processes : Crash(p)) \/ UNCHANGED vars PROVE Settled'
  BY <1>4 DEF Crash, vars, Settled
<1>5. ~\E z \in Zones : ChangeTimezone(z)
  BY DEF ChangeTimezone
<1> QED BY <1>1, <1>2, <1>3, <1>4, <1>5 DEF Next, Continue, Runs

LEMMA InductiveSettled == Spec /\ Steady => [](IInv /\ Settled)
<1>1. Init => IInv /\ Settled
  BY InitInv DEF Init, Settled
<1>2. IInv /\ Settled /\ [Next]_vars /\ [UNCHANGED tenantZone]_vars => (IInv /\ Settled)'
  <2>1. [UNCHANGED tenantZone]_vars => UNCHANGED tenantZone
    BY DEF vars, zoneVars
  <2> QED BY <2>1, NextInv, SettledStep DEF IInv
<1> QED BY <1>1, <1>2, PTL DEF Spec, Steady

LEMMA LockKeyOverlaps ==
    ASSUME NEW s \in Slots, NEW t \in Slots, LockKey(s) = LockKey(t)
    PROVE  Overlaps(s, t)
BY SlotsAssumption DEF LockKey, Overlaps

\* CalendarBooking: while no step changes the timezone lock_slot does what its
\* docstring says.
THEOREM SameSlot == Spec /\ Steady => []SameSlotSerialized
<1>1. IInv /\ Settled => SameSlotSerialized
  BY LockKeyOverlaps
  DEF IInv, TypeOK, SlotLocked, SlotDisjoint, SameSlotKept, Settled,
      SameSlotSerialized, BlockingRows
<1> QED BY <1>1, InductiveSettled, PTL

-----------------------------------------------------------------------------
(* The ledger *)

\* A call that ends without changing its row refuses, or repeats a booking.
LEMMA AnswerImplements ==
    ASSUME IInv, [Next]_vars, NEW r \in Requests, pc[r] # "done", row' = row,
           lost' = lost, NEW a \in Replies \ {"none"}, Answer(r, a),
           a = "confirmed" => ExistingReply(key[r]) = "confirmed"
    PROVE  Ledger!Next
<1>1. key' = key /\ slot' = slot /\ KeptApart' = KeptApart
  BY PayloadStep DEF IInv, KeptApart, Serialized
<1>2. LedgerBooking' = LedgerBooking /\ LedgerAnswer[r] = "none"
  BY DEF LedgerBooking, LedgerAnswer, IInv, Rows
<1>3. CASE a = "confirmed"
  <2>1. LedgerAnswer' = [LedgerAnswer EXCEPT ![r] = "confirmed"]
    BY <1>3 DEF LedgerAnswer, Answer, IInv, TypeOK
  <2>2. \E q \in Requests : key[q] = key[r] /\ LedgerBooking[q] = "booked"
    BY <1>3 DEF ExistingReply, RowsForKey, LedgerBooking
  <2>3. Ledger!Repeat(r)
    BY <1>1, <1>2, <2>1, <2>2 DEF Ledger!Repeat, LedgerBooking, LedgerAnswer
  <2> QED BY <2>3 DEF Ledger!Next
<1>4. CASE a # "confirmed"
  <2>1. LedgerAnswer' = [q \in Requests |->
            IF q \in {r} THEN "refused" ELSE LedgerAnswer[q]]
    BY <1>4 DEF LedgerAnswer, Answer, IInv, TypeOK
  <2>2. Ledger!Refuse({r})
    BY <1>1, <1>2, <2>1 DEF Ledger!Refuse, LedgerBooking, LedgerAnswer
  <2> QED BY <2>2 DEF Ledger!Next
<1> QED BY <1>3, <1>4

\* The steps that do not change a row or a reply are steps of nobody's booking.
LEMMA StutterImplements ==
    ASSUME TypeOK, [Next]_vars, row' = row, reply' = reply, lost' = lost
    PROVE  UNCHANGED Ledger!vars
BY PayloadStep DEF Ledger!vars, KeptApart, Serialized, LedgerBooking, LedgerAnswer

LEMMA InsertImplements ==
    ASSUME IInv, InsertsApart, NEW r \in Requests, InsertRow(r), RowsForKey(key[r]) = {}
    PROVE  Ledger!Hold(r)
<1>1. /\ UNCHANGED <<key, slot, lost, reply>>
      /\ row' = [row EXCEPT ![r] = "pending"] /\ pc[r] = "checked"
  BY DEF InsertRow, requestVars
<1>2. UNCHANGED <<key, KeptApart, LedgerAnswer>>
  BY <1>1 DEF KeptApart, Serialized, LedgerAnswer
<1>3. LedgerBooking' = [LedgerBooking EXCEPT ![r] = "held"]
  BY <1>1 DEF LedgerBooking, IInv, TypeOK, Blocking
<1>4. \A q \in Requests : key[q] = key[r] => LedgerBooking[q] = "none"
  BY DEF RowsForKey, LedgerBooking
<1>5. \A q \in Ledger!Active : <<r, q>> \notin KeptApart
  <2>1. Ledger!Active = BlockingRows
    BY DEF Ledger!Active, BlockingRows, LedgerBooking, Blocking
  <2> QED BY <1>1, <2>1 DEF InsertsApart
<1> QED BY <1>2, <1>3, <1>4, <1>5 DEF Ledger!Hold

\* The last step of a call that has a row.
LEMMA OutcomeImplements ==
    ASSUME IInv, [Next]_vars, NEW r \in Requests,
           ProviderFails(r) \/ Confirm(r) \/ ConfirmFails(r)
    PROVE  Ledger!Next
<1>1. UNCHANGED <<key, KeptApart>>
  BY PayloadStep DEF IInv, KeptApart, Serialized, ProviderFails, Confirm, ConfirmFails,
                     requestVars
<1>2. LedgerBooking[r] = "held" /\ LedgerAnswer[r] = "none"
  BY DEF ProviderFails, Confirm, ConfirmFails, IInv, Rows, Booking, LedgerBooking,
         LedgerAnswer, Blocking
<1>3. CASE ProviderFails(r)
  <2>1. /\ LedgerBooking' = [LedgerBooking EXCEPT ![r] = "freed"]
        /\ LedgerAnswer' = [LedgerAnswer EXCEPT ![r] = "refused"]
    BY <1>3 DEF ProviderFails, Answer, LedgerBooking, LedgerAnswer, Blocking, IInv, TypeOK
  <2> QED BY <1>1, <1>2, <2>1 DEF Ledger!Next, Ledger!Free
<1>4. CASE Confirm(r)
  <2>1. /\ LedgerBooking' = [LedgerBooking EXCEPT ![r] = "booked"]
        /\ LedgerAnswer' = [LedgerAnswer EXCEPT ![r] = "confirmed"]
    BY <1>4 DEF Confirm, Answer, LedgerBooking, LedgerAnswer, Blocking, IInv, TypeOK
  <2> QED BY <1>1, <1>2, <2>1 DEF Ledger!Next, Ledger!Settle
<1>5. CASE ConfirmFails(r)
  <2>1. /\ LedgerBooking' = LedgerBooking
        /\ LedgerAnswer' = [q \in Requests |->
              IF q \in {r} THEN "refused" ELSE LedgerAnswer[q]]
    BY <1>2, <1>5 DEF ConfirmFails, Answer, LedgerBooking, LedgerAnswer, Blocking,
                      IInv, TypeOK
  <2>2. Ledger!Refuse({r})
    BY <1>1, <1>2, <2>1 DEF Ledger!Refuse
  <2> QED BY <2>2 DEF Ledger!Next
<1> QED BY <1>3, <1>4, <1>5

\* load_rules frees the lock of a call: fewer calls are kept apart from it.
LEMMA LapseImplements ==
    ASSUME IInv, [Next]_vars, NEW r \in Requests, Recheck(r), lost' # lost
    PROVE  Ledger!Lapse(r)
<1>1. /\ UNCHANGED <<key, slot, row, reply>>
      /\ lost' = lost \cup {r} /\ pc[r] = "locked"
  BY DEF Recheck
<1>2. LedgerBooking[r] = "none" /\ LedgerAnswer[r] = "none"
  BY <1>1 DEF LedgerBooking, LedgerAnswer, IInv, Rows, Rowless
<1>3. /\ KeptApart' \in SUBSET KeptApart
      /\ \A p \in KeptApart \ KeptApart' : r \in {p[1], p[2]}
  BY <1>1 DEF KeptApart, Serialized
<1>4. UNCHANGED <<key, LedgerBooking, LedgerAnswer>>
  BY <1>1 DEF LedgerBooking, LedgerAnswer
<1> QED BY <1>2, <1>3, <1>4 DEF Ledger!Lapse

LEMMA StepImplements ==
    ASSUME IInv, InsertsApart, [Next]_vars PROVE [Ledger!Next]_(Ledger!vars)
<1> USE DEF requestVars, zoneVars
<1>1. ASSUME NEW r \in Requests, InsertRow(r) PROVE Ledger!Next
  <2>1. CASE RowsForKey(key[r]) = {}
    BY <1>1, <2>1, InsertImplements DEF Ledger!Next
  <2>2. CASE RowsForKey(key[r]) # {}
    BY <1>1, <2>2, AnswerImplements, ExistingReplyType DEF InsertRow, Replies
  <2> QED BY <2>1, <2>2
<1>2. ASSUME NEW r \in Requests, ProviderFails(r) \/ Confirm(r) \/ ConfirmFails(r)
      PROVE  Ledger!Next
  BY <1>2, OutcomeImplements
<1>3. ASSUME NEW r \in Requests, Begin(r) \/ Recheck(r), lost' = lost
      PROVE  [Ledger!Next]_(Ledger!vars)
  <2>1. row' = row /\ pc[r] # "done"
    BY <1>3 DEF Begin, Recheck
  <2>2. CASE reply' = reply
    BY <1>3, <2>1, <2>2, StutterImplements DEF IInv
  <2>3. CASE reply' # reply
    <3>1. Answer(r, "rejected") \/ Answer(r, ExistingReply(key[r]))
      BY <1>3, <2>3 DEF Begin, Recheck
    <3> QED BY <1>3, <2>1, <3>1, AnswerImplements, ExistingReplyType DEF Replies
  <2> QED BY <2>2, <2>3
<1>4. ASSUME NEW r \in Requests,
             \/ ExternalAnswers(r) \/ ReadLocal(r) \/ SearchEnds(r) \/ LockSlot(r)
             \/ ConflictCheck(r) \/ GetToken(r) \/ ProviderAccepts(r)
             \/ Breaks(r)
      PROVE  [Ledger!Next]_(Ledger!vars)
  <2>1. row' = row /\ lost' = lost /\ pc[r] # "done"
    BY <1>4 DEF ExternalAnswers, ReadLocal, SearchEnds, LockSlot, ConflictCheck,
                GetToken, ProviderAccepts, Breaks
  <2>2. CASE reply' = reply
    BY <2>1, <2>2, StutterImplements DEF IInv
  <2>3. CASE reply' # reply
    <3>1. \E a \in {"rejected", "slot_no_longer_available", "token_error",
                    "exception"} : Answer(r, a)
      BY <1>4, <2>3 DEF ExternalAnswers, ReadLocal, SearchEnds, LockSlot,
         ConflictCheck, GetToken, ProviderAccepts, Breaks
    <3> QED BY <2>1, <3>1, AnswerImplements DEF Replies
  <2> QED BY <2>2, <2>3
<1>5. ASSUME NEW p \in Processes, Crash(p) PROVE Ledger!Next
  <2> DEFINE dead == {r \in Requests : Home[r] = p /\ pc[r] \notin {"idle", "done"}}
  <2>1. UNCHANGED <<key, KeptApart, LedgerBooking>>
    BY <1>5 DEF Crash, KeptApart, Serialized, LedgerBooking
  <2>2. LedgerAnswer' = [r \in Requests |->
            IF r \in dead THEN "refused" ELSE LedgerAnswer[r]]
    BY <1>5 DEF Crash, LedgerAnswer
  <2>3. \A r \in dead : LedgerAnswer[r] = "none"
    BY DEF LedgerAnswer, IInv, Rows
  <2>4. Ledger!Refuse(dead) /\ dead \in SUBSET Requests
    BY <2>1, <2>2, <2>3 DEF Ledger!Refuse
  <2> QED BY <2>4 DEF Ledger!Next
<1>6. ASSUME (\E z \in Zones : ChangeTimezone(z)) \/ UNCHANGED vars
      PROVE  UNCHANGED Ledger!vars
  BY <1>6, StutterImplements DEF ChangeTimezone, vars, IInv
<1>7. ASSUME NEW r \in Requests, Recheck(r), lost' # lost PROVE Ledger!Next
  BY <1>7, LapseImplements DEF Ledger!Next
<1>8. ASSUME NEW r \in Requests, Begin(r) PROVE lost' = lost
  BY <1>8 DEF Begin
<1> QED BY <1>1, <1>2, <1>3, <1>4, <1>5, <1>6, <1>7, <1>8 DEF Next, Continue, Runs

\* The lock and the event loop keep apart what is to be kept apart.
LEMMA LockedApart == IInv => InsertsApart
BY OverlapsSymmetric
DEF IInv, TypeOK, SlotLocked, SameSlotKept, CheckedAlone, CheckedSlot, KeptApart,
    Serialized, BlockingRows, InsertsApart

LEMMA InitImplements == Init => Ledger!Init
BY DEF Init, Ledger!Init, KeptApart, LedgerBooking, LedgerAnswer

\* CalendarBooking: create() implements the ledger, in any number of processes
\* and whatever timezones are configured meanwhile; a call whose lock is lost
\* lapses, and is kept apart only from the calls of its own process.
THEOREM Implements == Spec => ImplementsLedger
<1>1. IInv /\ [Next]_vars => [Ledger!Next]_(Ledger!vars)
  BY LockedApart, StepImplements
<1> QED BY <1>1, InitImplements, Inductive, PTL DEF Spec, ImplementsLedger, Ledger!Spec
=============================================================================
