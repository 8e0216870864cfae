----------------------------- MODULE TableHolds -----------------------------
(***************************************************************************)
(* Table holds of one event (TableReservationsService, TablesService).     *)
(*                                                                         *)
(* table_reservations is unique in (actor, use case, idempotency key): a   *)
(* hold is indexed by the actor and the key.  createHold, the organizer's  *)
(* status change and the availability read lock the event_tables row       *)
(* first, so each is one step; getOwnedReservation takes no lock and runs  *)
(* at READ COMMITTED, so each of its statements is a step.  Every call     *)
(* takes its "now" before its transaction and uses it throughout.          *)
(***************************************************************************)
EXTENDS Naturals

CONSTANTS
    Actors, Keys, Tables,
    Readers,        \* calls of getOwnedReservation
    Duration,       \* TABLE_HOLD_DURATION_SECONDS
    MaxTime,        \* bound of the clock
    None

ASSUME TableAssumption ==
    /\ Duration \in Nat /\ MaxTime \in Nat
    /\ None \notin Nat

Holds == Actors \X Keys

Times == 0 .. MaxTime

TableStatuses == {"AVAILABLE", "HELD", "UNAVAILABLE"}

Expiries == 0 .. MaxTime + Duration

VARIABLES
    tableStatus, tableExpiry,   \* event_tables.status and hold_expires_at
    hold,                       \* table_reservations.status, "ABSENT" if none
    holdTable, holdExpiry,
    gpc, gin, gnow,             \* a reader's progress, reservation and "now"
    gstate, gnext,              \* the table state it read and the one to write
    marked,                     \* rows it has updated and not yet committed
    now

tableVars == <<tableStatus, tableExpiry>>
holdVars == <<hold, holdTable, holdExpiry>>
readerVars == <<gpc, gin, gnow, gstate, gnext, marked>>
vars == <<tableVars, holdVars, readerVars, now>>

States == [status: TableStatuses, expiry: Expiries \cup {None}]

TypeOK ==
    /\ tableStatus \in [Tables -> TableStatuses]
    /\ tableExpiry \in [Tables -> Expiries \cup {None}]
    /\ hold \in [Holds -> {"ABSENT", "HELD", "EXPIRED"}]
    /\ holdTable \in [Holds -> Tables \cup {None}]
    /\ holdExpiry \in [Holds -> Expiries]
    /\ gpc \in [Readers -> {"idle", "stale", "fresh", "mark", "active", "write", "done"}]
    /\ gin \in [Readers -> Holds \cup {None}]
    /\ gnow \in [Readers -> Times]
    /\ gstate \in [Readers -> States \cup {None}]
    /\ gnext \in [Readers -> States \cup {None}]
    /\ marked \in [Readers -> SUBSET Holds]
    /\ now \in Times

\* createEventTable: a table starts AVAILABLE or UNAVAILABLE.
Init ==
    /\ tableStatus \in [Tables -> {"AVAILABLE", "UNAVAILABLE"}]
    /\ tableExpiry = [t \in Tables |-> None]
    /\ hold = [h \in Holds |-> "ABSENT"]
    /\ holdTable = [h \in Holds |-> None]
    /\ holdExpiry = [h \in Holds |-> 0]
    /\ gpc = [g \in Readers |-> "idle"]
    /\ gin = [g \in Readers |-> None]
    /\ gnow = [g \in Readers |-> 0]
    /\ gstate = [g \in Readers |-> None]
    /\ gnext = [g \in Readers |-> None]
    /\ marked = [g \in Readers |-> {}]
    /\ now = 0

-----------------------------------------------------------------------------
HeldOn(t) == {h \in Holds : hold[h] = "HELD" /\ holdTable[h] = t}

findExpiredHeldByEventTable(t, at) == {h \in HeldOn(t) : holdExpiry[h] <= at}

\* Counted by countActiveHeldReservationsForEventTable.
ActiveHeld(t, at) == {h \in HeldOn(t) : holdExpiry[h] > at}

\* findLatestActiveHeldReservationForEventTable: ORDER BY hold_expires_at DESC.
LatestActive(t, at) ==
    {h \in ActiveHeld(t, at) : \A x \in ActiveHeld(t, at) : holdExpiry[x] <= holdExpiry[h]}

\* reconcileEventTableStateWithinTx: the next state of a table, given the state
\* that was read and the latest active hold if there is one.
Reconciled(state, latest) ==
    IF latest # {} THEN {[status |-> "HELD", expiry |-> holdExpiry[h]] : h \in latest}
    ELSE {[status |-> IF state.status = "HELD" THEN "AVAILABLE" ELSE state.status,
           expiry |-> None]}

StateOf(t) == [status |-> tableStatus[t], expiry |-> tableExpiry[t]]

SetTable(t, state) ==
    /\ tableStatus' = [tableStatus EXCEPT ![t] = state.status]
    /\ tableExpiry' = [tableExpiry EXCEPT ![t] = state.expiry]

\* Rows locked by a reader's uncommitted update: whoever wants to expire them
\* waits, and fails when it runs at SERIALIZABLE.
Locked == UNION {marked[g] : g \in Readers}

MutantExpire(t, at) ==
    hold' = [h \in Holds |-> IF h \in HeldOn(t) THEN "EXPIRED" ELSE hold[h]]

\* expireStaleHoldForEventTableWithinTx, its updates of table_reservations.
Expire(t, at) ==
    /\ findExpiredHeldByEventTable(t, at) \cap Locked = {}
    /\ hold' = [h \in Holds |->
                   IF h \in findExpiredHeldByEventTable(t, at) THEN "EXPIRED" ELSE hold[h]]

-----------------------------------------------------------------------------
(* createHold.  The checks on the event, the organizer and the venue table  *)
(* concern tables that are not modelled: a call they refuse changes nothing *)

HoldExpiry(at) == at + Duration

MutantCreateHold(h, t, at) ==
    LET expired == findExpiredHeldByEventTable(t, at)
    IN /\ at <= now
       /\ tableStatus[t] # "UNAVAILABLE"
       /\ hold[h] = "ABSENT"
       /\ tableStatus[t] = "HELD" => tableExpiry[t] <= at
       /\ expired \cap Locked = {}
       /\ hold' = [x \in Holds |-> IF x = h THEN "HELD"
                                   ELSE IF x \in expired THEN "EXPIRED" ELSE hold[x]]
       /\ holdTable' = [holdTable EXCEPT ![h] = t]
       /\ holdExpiry' = [holdExpiry EXCEPT ![h] = HoldExpiry(at)]
       /\ SetTable(t, [status |-> "HELD", expiry |-> HoldExpiry(at)])
       /\ UNCHANGED <<readerVars, now>>

\* A new key: stale holds expire, an active one refuses the call.
createHold(h, t, at) ==
    LET expired == findExpiredHeldByEventTable(t, at)
    IN /\ at <= now
       /\ tableStatus[t] # "UNAVAILABLE"
       /\ hold[h] = "ABSENT"
       /\ ActiveHeld(t, at) = {}
       /\ expired \cap Locked = {}
       /\ hold' = [x \in Holds |-> IF x = h THEN "HELD"
                                   ELSE IF x \in expired THEN "EXPIRED" ELSE hold[x]]
       /\ holdTable' = [holdTable EXCEPT ![h] = t]
       /\ holdExpiry' = [holdExpiry EXCEPT ![h] = HoldExpiry(at)]
       /\ SetTable(t, [status |-> "HELD", expiry |-> HoldExpiry(at)])
       /\ UNCHANGED <<readerVars, now>>

\* A known key with the same fingerprint: stale holds expire, the table is
\* reconciled, and the first reservation is returned whatever its status.
ReplayHold(h, t, at) ==
    /\ at <= now
    /\ tableStatus[t] # "UNAVAILABLE"
    /\ hold[h] # "ABSENT"
    /\ holdTable[h] = t
    /\ Expire(t, at)
    /\ \E state \in Reconciled(StateOf(t), LatestActive(t, at)) : SetTable(t, state)
    /\ UNCHANGED <<holdTable, holdExpiry, readerVars, now>>

-----------------------------------------------------------------------------
(* TablesService *)

MutantUpdateStatus(t, to, at) ==
    /\ at <= now
    /\ Expire(t, at)
    /\ SetTable(t, [status |-> to, expiry |-> None])
    /\ UNCHANGED <<holdTable, holdExpiry, readerVars, now>>

\* The organizer makes a table available or unavailable; an active hold
\* prevents that, and then the expiry of stale ones is rolled back too.
updateEventTableStatus(t, to, at) ==
    /\ at <= now
    /\ ActiveHeld(t, at) = {}
    /\ Expire(t, at)
    /\ SetTable(t, [status |-> to, expiry |-> None])
    /\ UNCHANGED <<holdTable, holdExpiry, readerVars, now>>

\* getAvailability locks every table of the event and reconciles each.
getAvailability(at) ==
    LET expired == UNION {findExpiredHeldByEventTable(t, at) : t \in Tables}
        options(t) == Reconciled(StateOf(t), LatestActive(t, at))
    IN /\ at <= now
       /\ expired \cap Locked = {}
       /\ hold' = [h \in Holds |-> IF h \in expired THEN "EXPIRED" ELSE hold[h]]
       /\ \E next \in [Tables -> UNION {options(t) : t \in Tables}] :
             /\ \A t \in Tables : next[t] \in options(t)
             /\ tableStatus' = [t \in Tables |-> next[t].status]
             /\ tableExpiry' = [t \in Tables |-> next[t].expiry]
       /\ UNCHANGED <<holdTable, holdExpiry, readerVars, now>>

-----------------------------------------------------------------------------
(* getOwnedReservation, statement by statement *)

MoveReader(g, from, to) ==
    /\ gpc[g] = from
    /\ gpc' = [gpc EXCEPT ![g] = to]
    /\ UNCHANGED now

\* The reservation is read; a stale hold takes the expiring branch.
ReadOwned(g, h, at) ==
    /\ MoveReader(g, "idle",
                  IF hold[h] = "HELD" /\ holdExpiry[h] <= at THEN "stale" ELSE "fresh")
    /\ at <= now
    /\ hold[h] # "ABSENT"
    /\ gin' = [gin EXCEPT ![g] = h]
    /\ gnow' = [gnow EXCEPT ![g] = at]
    /\ UNCHANGED <<tableVars, holdVars, gstate, gnext, marked>>

findEventTableState(g) ==
    /\ MoveReader(g, "stale", "mark") \/ MoveReader(g, "fresh", "active")
    /\ gstate' = [gstate EXCEPT ![g] = StateOf(holdTable[gin[g]])]
    /\ UNCHANGED <<tableVars, holdVars, gin, gnow, gnext, marked>>

\* findExpiredHeldByEventTable and markExpired for each row found.
MarkExpired(g) ==
    LET expired == findExpiredHeldByEventTable(holdTable[gin[g]], gnow[g])
    IN /\ MoveReader(g, "mark", "active")
       /\ expired \cap Locked = {}
       /\ marked' = [marked EXCEPT ![g] = expired]
       /\ UNCHANGED <<tableVars, holdVars, gin, gnow, gstate, gnext>>

FindActive(g) ==
    /\ MoveReader(g, "active", "write")
    /\ \E state \in Reconciled(gstate[g], LatestActive(holdTable[gin[g]], gnow[g])) :
          gnext' = [gnext EXCEPT ![g] = state]
    /\ UNCHANGED <<tableVars, holdVars, gin, gnow, gstate, marked>>

\* The table row is written when the state differs from the one that was read,
\* and the transaction commits.
CommitRead(g) ==
    /\ MoveReader(g, "write", "done")
    /\ IF gnext[g] = gstate[g] THEN UNCHANGED tableVars
       ELSE SetTable(holdTable[gin[g]], gnext[g])
    /\ hold' = [h \in Holds |-> IF h \in marked[g] THEN "EXPIRED" ELSE hold[h]]
    /\ marked' = [marked EXCEPT ![g] = {}]
    /\ UNCHANGED <<holdTable, holdExpiry, gin, gnow, gstate, gnext>>

\* A crash, a deadlock with a call that holds the table row, a failed audit.
AbortRead(g) ==
    /\ gpc[g] \notin {"idle", "done"}
    /\ MoveReader(g, gpc[g], "done")
    /\ marked' = [marked EXCEPT ![g] = {}]
    /\ UNCHANGED <<tableVars, holdVars, gin, gnow, gstate, gnext>>

Tick ==
    /\ now < MaxTime
    /\ now' = now + 1
    /\ UNCHANGED <<tableVars, holdVars, readerVars>>

-----------------------------------------------------------------------------
Next ==
    \/ \E h \in Holds, t \in Tables, at \in Times : createHold(h, t, at) \/ ReplayHold(h, t, at)
    \/ \E t \in Tables, to \in {"AVAILABLE", "UNAVAILABLE"}, at \in Times :
          updateEventTableStatus(t, to, at)
    \/ \E at \in Times : getAvailability(at)
    \/ \E g \in Readers : \/ \E h \in Holds, at \in Times : ReadOwned(g, h, at)
                          \/ findEventTableState(g)
                          \/ MarkExpired(g)
                          \/ FindActive(g)
                          \/ CommitRead(g)
                          \/ AbortRead(g)
    \/ Tick

Spec == Init /\ [][Next]_vars

-----------------------------------------------------------------------------
(* Properties *)

Live(h) == hold[h] = "HELD" /\ holdExpiry[h] > now

\* A table is held for at most one reservation at a time, although every call
\* judges the other holds by a "now" it took before it waited for the lock.
OneLiveHold ==
    \A h, x \in Holds : Live(h) /\ Live(x) /\ holdTable[h] = holdTable[x] => h = x

\* A table the organizer took off sale has no live hold: neither createHold
\* nor a reader that reconciles an old state gets past updateEventTableStatus.
UnavailableHasNoHold ==
    \A h \in Holds : Live(h) => tableStatus[holdTable[h]] # "UNAVAILABLE"

\* A hold keeps its table and its expiry, is never given up before the expiry
\* and never comes back after it, whoever cleans up and with what clock.
HoldsAreKept ==
    [][\A h \in Holds : hold[h] # "ABSENT" =>
          /\ holdTable'[h] = holdTable[h]
          /\ holdExpiry'[h] = holdExpiry[h]
          /\ hold'[h] \in {hold[h], "EXPIRED"}
          /\ hold'[h] # hold[h] => holdExpiry[h] <= now]_vars
=============================================================================
