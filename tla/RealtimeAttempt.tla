--------------------------- MODULE RealtimeAttempt ---------------------------
(***************************************************************************)
(* What the backend keeps of browser calls (services/realtime.py): one row *)
(* per attempt, written by the handler of its bootstrap request and by the *)
(* two reports of the browser, "connected" and "finish".  A transaction is *)
(* one action.  The handlers serve any browser: every request may come at  *)
(* any time and in any order.                                              *)
(***************************************************************************)

CONSTANT Attempts    \* ids a browser draws with crypto.randomUUID()

VARIABLES
    status,    \* status of the attempt's row, "none" while there is no row
    old,       \* attempts whose row was created before the stale cutoff
    boot,      \* where the handler of the attempt's bootstrap request stands
    stale      \* the rows that handler read as stale

serverVars == <<status, old, boot, stale>>

-----------------------------------------------------------------------------
\* "ended" stands for ended, cancelled and failed, which nothing tells apart.
TerminalStatuses == {"ended", "abandoned"}
NonTerminalStatuses == {"starting", "provisioned", "connected"}

\* The handler is between two of its transactions, or waits for the provider.
Handling == {"scanned", "reconciled", "created"}

\* The handler is over: the secret is on its way to the browser, or an error
\* is, or no answer at all.
Answers == {"granted", "refused"}

\* The attempts that abandon_stale_attempts selects.
StaleAttempts == {a \in old : status[a] \in NonTerminalStatuses}

ServerTypeOK ==
    /\ status \in [Attempts -> {"none"} \cup NonTerminalStatuses \cup TerminalStatuses]
    /\ old \subseteq Attempts
    /\ boot \in [Attempts -> {"none"} \cup Handling \cup Answers]
    /\ stale \in [Attempts -> SUBSET Attempts]

ServerInit ==
    /\ status = [a \in Attempts |-> "none"]
    /\ old = {}
    /\ boot = [a \in Attempts |-> "none"]
    /\ stale = [a \in Attempts |-> {}]

-----------------------------------------------------------------------------
\* POST session-bootstrap arrives: stale attempts are read, without a lock.
ScanStale(a) ==
    /\ boot[a] = "none"
    /\ boot' = [boot EXCEPT ![a] = "scanned"]
    /\ stale' = [stale EXCEPT ![a] = StaleAttempts]
    /\ UNCHANGED <<status, old>>

\* The rows that were read are written by their primary key, whatever their
\* status has become.
AbandonStale(a) ==
    /\ boot[a] = "scanned"
    /\ status' = [x \in Attempts |-> IF x \in stale[a] THEN "abandoned" ELSE status[x]]
    /\ boot' = [boot EXCEPT ![a] = "reconciled"]
    /\ stale' = [stale EXCEPT ![a] = {}]
    /\ UNCHANGED old

\* The attempt's own row: call_attempt_id is unique, also against the tombstone
\* of a finish that came first.
CreateAttempt(a) ==
    /\ boot[a] = "reconciled"
    /\ IF status[a] = "none"
       THEN /\ status' = [status EXCEPT ![a] = "starting"]
            /\ boot' = [boot EXCEPT ![a] = "created"]
       ELSE /\ boot' = [boot EXCEPT ![a] = "refused"]
            /\ UNCHANGED status
    /\ UNCHANGED <<old, stale>>

\* Mutant: a row that is over is kept, the secret is handed out.
ProvisionAttemptBlind(a) ==
    /\ boot[a] = "created"
    /\ status' = [status EXCEPT ![a] = IF @ \in TerminalStatuses THEN @ ELSE "provisioned"]
    /\ boot' = [boot EXCEPT ![a] = "granted"]
    /\ UNCHANGED <<old, stale>>

\* The provider granted a client secret.  The row is read again under a lock.
ProvisionAttempt(a) ==
    /\ boot[a] = "created"
    /\ IF status[a] \in TerminalStatuses
       THEN /\ boot' = [boot EXCEPT ![a] = "refused"]
            /\ UNCHANGED status
       ELSE /\ status' = [status EXCEPT ![a] = "provisioned"]
            /\ boot' = [boot EXCEPT ![a] = "granted"]
    /\ UNCHANGED <<old, stale>>

\* The configuration cannot be built, or the provider fails: _mark_failed.
MarkFailed(a) ==
    /\ boot[a] = "created"
    /\ status' = [status EXCEPT ![a] = IF @ \in TerminalStatuses THEN @ ELSE "ended"]
    /\ boot' = [boot EXCEPT ![a] = "refused"]
    /\ UNCHANGED <<old, stale>>

\* The backend process dies under its handlers: what they committed stays.
Restart ==
    /\ \E a \in Attempts : boot[a] \in Handling
    /\ boot' = [a \in Attempts |-> IF boot[a] \in Handling THEN "refused" ELSE boot[a]]
    /\ stale' = [a \in Attempts |-> {}]
    /\ UNCHANGED <<status, old>>

\* The longest session and the grace period have passed since the row was made;
\* the age of a row that is over is of no consequence.
AgesOut(a) ==
    /\ status[a] \in NonTerminalStatuses
    /\ a \notin old
    /\ old' = old \cup {a}
    /\ UNCHANGED <<status, boot, stale>>

\* POST connected: 404 without a row, 409 unless provisioned or connected.
ConnectedOK(a) == status[a] \in {"provisioned", "connected"}

MarkConnected(a) ==
    /\ status' = [status EXCEPT ![a] = IF @ = "provisioned" THEN "connected" ELSE @]
    /\ UNCHANGED <<old, boot, stale>>

\* POST finish: the first one decides, and leaves a tombstone if it comes
\* before the bootstrap.
FinishAttempt(a, outcome) ==
    /\ status' = [status EXCEPT ![a] = IF @ \in TerminalStatuses THEN @ ELSE outcome]
    /\ UNCHANGED <<old, boot, stale>>

\* One step of the handler of a's bootstrap request.
Bootstrap(a) ==
    \/ ScanStale(a) \/ AbandonStale(a) \/ CreateAttempt(a)
    \/ ProvisionAttempt(a) \/ MarkFailed(a)

ServerNext ==
    \/ \E a \in Attempts :
          \/ Bootstrap(a) \/ AgesOut(a) \/ MarkConnected(a)
          \/ \E outcome \in TerminalStatuses : FinishAttempt(a, outcome)
    \/ Restart

ServerSpec == ServerInit /\ [][ServerNext]_serverVars

-----------------------------------------------------------------------------
\* An attempt that is over stays over, and keeps its outcome unless it is so
\* old that a bootstrap request took it for stale: abandon_stale_attempts reads
\* without a lock and may overwrite a report that came after it read.  Neither
\* a late answer of the provider, nor a late "connected", nor a second finish
\* changes it.
OneOutcome ==
    [][\A a \in Attempts : status[a] \in TerminalStatuses =>
          status'[a] \in {status[a]} \cup (IF a \in old THEN {"abandoned"} ELSE {})
      ]_serverVars

\* A browser is sent a client secret only for an attempt whose row was open in
\* that same transaction: an attempt that the browser has finished gets none, also
\* when its finish arrived before its bootstrap request or while the provider
\* was asked.
CancelledGetsNoSecret ==
    [][\A a \in Attempts : boot[a] # "granted" /\ boot'[a] = "granted" =>
          status[a] = "starting" /\ status'[a] = "provisioned"]_serverVars

\* Both: the rows decide, whatever answers and reports come late.
ServerDecides == OneOutcome /\ CancelledGetsNoSecret
=============================================================================
