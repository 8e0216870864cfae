-------------------------- MODULE TableHoldsProofs --------------------------
(***************************************************************************)
(* Proofs about TableHolds, for any number of actors, keys, tables and     *)
(* readers.  createHold and updateEventTableStatus decide by the holds, so *)
(* OneLiveHold is inductive.  UnavailableHasNoHold is not: a reader writes *)
(* back a state that it computed from an old copy of the row, and one has  *)
(* to know that it never writes UNAVAILABLE (ReadersNeverClose), for which *)
(* a table off sale must have no expiry to clear (OffSale).                *)
(***************************************************************************)
EXTENDS TableHolds, TLAPS

\* A hold names a table, and a reader a hold.
Placed ==
    /\ \A h \in Holds : hold[h] # "ABSENT" => holdTable[h] \in Tables
    /\ \A g \in Readers : gpc[g] # "idle" => gin[g] \in Holds /\ hold[gin[g]] # "ABSENT"

\* A table off sale has no expiry.
OffSale == \A t \in Tables : tableStatus[t] = "UNAVAILABLE" => tableExpiry[t] = None

\* A reader that found the table off sale leaves it alone.
ReadersNeverClose ==
    \A g \in Readers :
        /\ gpc[g] \in {"mark", "active", "write"} =>
              /\ gstate[g] \in States
              /\ gstate[g].status = "UNAVAILABLE" => gstate[g].expiry = None
        /\ gpc[g] = "write" =>
              /\ gnext[g] \in States
              /\ gnext[g].status = "UNAVAILABLE" => gnext[g] = gstate[g]

\* A reader expires only what was stale by its own, past, clock.
MarkedAreStale ==
    \A g \in Readers :
        /\ gnow[g] <= now
        /\ gpc[g] = "idle" => marked[g] = {}
        /\ \A h \in marked[g] : hold[h] # "ABSENT" /\ holdExpiry[h] <= gnow[g]

IndInv == TypeOK /\ Placed /\ OffSale /\ ReadersNeverClose /\ MarkedAreStale
          /\ OneLiveHold /\ UnavailableHasNoHold

\* The invariant holds before the first hold.
LEMMA InitInd == Init => IndInv
<1> SUFFICES ASSUME Init PROVE IndInv
  OBVIOUS
<1>1. TypeOK
  BY TableAssumption DEF Init, TypeOK, TableStatuses, Times, Expiries
<1>2. QED
  BY <1>1 DEF Init, IndInv, Placed, OffSale, ReadersNeverClose, MarkedAreStale, OneLiveHold,
     UnavailableHasNoHold, Live, TypeOK

\* reconcileEventTableStateWithinTx yields a state, and never takes a table off
\* sale that was not.
LEMMA ReconciledState ==
  ASSUME TypeOK, NEW state \in States, NEW latest \in SUBSET Holds,
         NEW next \in Reconciled(state, latest)
  PROVE  /\ next \in States
         /\ next.status = "UNAVAILABLE" => state.status = "UNAVAILABLE" /\ next.expiry = None
<1>1. CASE latest # {}
  BY <1>1 DEF Reconciled, States, TableStatuses, TypeOK
<1>2. CASE latest = {}
  BY <1>2 DEF Reconciled, States, TableStatuses, TypeOK
<1>3. QED
  BY <1>1, <1>2

\* The state of a table is one of the states.
LEMMA StateOfTyped ==
  ASSUME TypeOK, NEW t \in Tables
  PROVE  /\ StateOf(t) \in States
         /\ StateOf(t).status = tableStatus[t]
         /\ StateOf(t).expiry = tableExpiry[t]
BY DEF StateOf, States, TypeOK

\* The latest active holds are holds.
LEMMA LatestAreHolds ==
  ASSUME NEW t, NEW at
  PROVE  LatestActive(t, at) \in SUBSET Holds
BY DEF LatestActive, ActiveHeld, HeldOn

\* What every step may do to a hold.
Kept ==
    \A h \in Holds : hold[h] # "ABSENT" =>
        /\ holdTable'[h] = holdTable[h]
        /\ holdExpiry'[h] = holdExpiry[h]
        /\ hold'[h] \in {hold[h], "EXPIRED"}
        /\ hold'[h] # hold[h] => holdExpiry[h] <= now

\* Every step keeps the invariant, and the holds: one case per action.
LEMMA StepInd == IndInv /\ [Next]_vars => IndInv' /\ Kept
<1> SUFFICES ASSUME IndInv, [Next]_vars PROVE IndInv' /\ Kept
  OBVIOUS
<1> USE TableAssumption DEF IndInv
<1>1. ASSUME NEW h \in Holds, NEW t \in Tables, NEW at \in Times, createHold(h, t, at)
      PROVE IndInv' /\ Kept
  <2> USE <1>1 DEF createHold, readerVars, SetTable, HoldExpiry
  <2>1. at \in Nat /\ at <= now /\ now \in Nat /\ at + Duration \in Expiries /\ Duration \in Nat
    BY DEF TypeOK, Times, Expiries
  <2>2. TypeOK'
    BY <2>1 DEF TypeOK, TableStatuses
  <2>3. \A x \in Holds : hold[x] = "HELD" /\ holdTable[x] = t => holdExpiry[x] <= at
    BY <2>1 DEF ActiveHeld, HeldOn, TypeOK, Expiries
  <2>4. Kept
    BY <2>1 DEF Kept, TypeOK, findExpiredHeldByEventTable, HeldOn, Expiries
  <2>5. Placed' /\ OffSale'
    <3>1. Placed'
      BY <2>4 DEF Placed, TypeOK, Kept, findExpiredHeldByEventTable, HeldOn
    <3>2. OffSale'
      BY DEF OffSale, TypeOK
    <3>3. QED
      BY <3>1, <3>2
  <2>6. ReadersNeverClose' /\ MarkedAreStale'
    BY <2>4 DEF ReadersNeverClose, MarkedAreStale, TypeOK
  <2>7. OneLiveHold'
    BY <2>1, <2>3 DEF OneLiveHold, Live, TypeOK, Expiries
  <2>8. UnavailableHasNoHold'
    BY <2>1, <2>3 DEF UnavailableHasNoHold, Live, TypeOK, Placed
  <2>9. QED
    BY <2>2, <2>4, <2>5, <2>6, <2>7, <2>8
<1>2. ASSUME NEW h \in Holds, NEW t \in Tables, NEW at \in Times, ReplayHold(h, t, at)
      PROVE IndInv' /\ Kept
  <2> USE <1>2 DEF ReplayHold, Expire, readerVars, SetTable
  <2>1. PICK state \in Reconciled(StateOf(t), LatestActive(t, at)) : SetTable(t, state)
    OBVIOUS
  <2>2. /\ state \in States
        /\ state.status = "UNAVAILABLE" => tableStatus[t] = "UNAVAILABLE" /\ state.expiry = None
    BY ReconciledState, StateOfTyped, LatestAreHolds
  <2>3. at \in Nat /\ at <= now /\ now \in Nat
    BY DEF TypeOK, Times
  <2>4. state.status \in TableStatuses /\ state.expiry \in Expiries \cup {None}
    BY <2>2 DEF States
  <2>5. TypeOK'
    BY <2>1, <2>4 DEF TypeOK
  <2>6. Kept
    BY <2>3 DEF Kept, TypeOK, findExpiredHeldByEventTable, HeldOn, Expiries
  <2>7. Placed' /\ OffSale'
    <3>1. Placed'
      BY <2>1, <2>2, <2>6 DEF Placed, TypeOK, Kept, findExpiredHeldByEventTable, HeldOn
    <3>2. OffSale'
      BY <2>1, <2>2 DEF OffSale, TypeOK
    <3>3. QED
      BY <3>1, <3>2
  <2>8. ReadersNeverClose' /\ MarkedAreStale'
    BY <2>6 DEF ReadersNeverClose, MarkedAreStale, TypeOK
  <2>9. OneLiveHold'
    BY DEF OneLiveHold, Live, TypeOK
  <2>10. UnavailableHasNoHold'
    BY <2>1, <2>2 DEF UnavailableHasNoHold, Live, TypeOK, Placed
  <2>11. QED
    BY <2>5, <2>6, <2>7, <2>8, <2>9, <2>10
<1>3. ASSUME NEW t \in Tables, NEW to \in {"AVAILABLE", "UNAVAILABLE"}, NEW at \in Times,
             updateEventTableStatus(t, to, at)
      PROVE IndInv' /\ Kept
  <2> USE <1>3 DEF updateEventTableStatus, Expire, readerVars, SetTable
  <2>1. at \in Nat /\ at <= now /\ now \in Nat
    BY DEF TypeOK, Times
  <2>2. TypeOK'
    BY DEF TypeOK, TableStatuses
  <2>3. \A x \in Holds : hold[x] = "HELD" /\ holdTable[x] = t => holdExpiry[x] <= at
    BY <2>1 DEF ActiveHeld, HeldOn, TypeOK, Expiries
  <2>4. Kept
    BY <2>1 DEF Kept, TypeOK, findExpiredHeldByEventTable, HeldOn, Expiries
  <2>5. Placed' /\ OffSale'
    <3>1. Placed'
      BY <2>4 DEF Placed, TypeOK, Kept, findExpiredHeldByEventTable, HeldOn
    <3>2. OffSale'
      BY DEF OffSale, TypeOK
    <3>3. QED
      BY <3>1, <3>2
  <2>6. ReadersNeverClose' /\ MarkedAreStale'
    BY <2>4 DEF ReadersNeverClose, MarkedAreStale, TypeOK
  <2>7. OneLiveHold'
    BY DEF OneLiveHold, Live, TypeOK
  <2>8. UnavailableHasNoHold'
    BY <2>1, <2>3 DEF UnavailableHasNoHold, Live, TypeOK, Placed, Expiries
  <2>9. QED
    BY <2>2, <2>4, <2>5, <2>6, <2>7, <2>8
<1>4. ASSUME NEW at \in Times, getAvailability(at) PROVE IndInv' /\ Kept
  <2> DEFINE options(t) == Reconciled(StateOf(t), LatestActive(t, at))
             expired == UNION {findExpiredHeldByEventTable(t, at) : t \in Tables}
  <2>1. PICK next \in [Tables -> UNION {options(t) : t \in Tables}] :
           /\ \A t \in Tables : next[t] \in options(t)
           /\ tableStatus' = [t \in Tables |-> next[t].status]
           /\ tableExpiry' = [t \in Tables |-> next[t].expiry]
    BY <1>4 DEF getAvailability
  <2>2. \A t \in Tables :
           /\ next[t] \in States
           /\ next[t].status = "UNAVAILABLE" =>
                 tableStatus[t] = "UNAVAILABLE" /\ next[t].expiry = None
    BY <2>1, ReconciledState, StateOfTyped, LatestAreHolds
  <2>3. /\ at \in Nat /\ at <= now /\ now \in Nat
        /\ hold' = [h \in Holds |-> IF h \in expired THEN "EXPIRED" ELSE hold[h]]
        /\ UNCHANGED <<holdTable, holdExpiry, readerVars, now>>
    BY <1>4 DEF getAvailability, TypeOK, Times
  <2>4. \A h \in expired : hold[h] = "HELD" /\ holdExpiry[h] <= at
    BY DEF findExpiredHeldByEventTable, HeldOn
  <2> HIDE DEF expired
  <2> USE <2>3 DEF readerVars
  <2>5. TypeOK'
    BY <2>1, <2>2 DEF TypeOK, States
  <2>6. Kept
    BY <2>4 DEF Kept, TypeOK, Expiries
  <2>7. Placed' /\ OffSale'
    <3>1. Placed'
      BY <2>1, <2>4, <2>6 DEF Placed, TypeOK, Kept
    <3>2. OffSale'
      BY <2>1, <2>2 DEF OffSale, TypeOK
    <3>3. QED
      BY <3>1, <3>2
  <2>8. ReadersNeverClose' /\ MarkedAreStale'
    BY <2>6 DEF ReadersNeverClose, MarkedAreStale, TypeOK
  <2>9. OneLiveHold'
    BY DEF OneLiveHold, Live, TypeOK
  <2>10. UnavailableHasNoHold'
    BY <2>1, <2>2 DEF UnavailableHasNoHold, Live, TypeOK, Placed
  <2>11. QED
    BY <2>5, <2>6, <2>7, <2>8, <2>9, <2>10
<1>5. ASSUME NEW g \in Readers, NEW h \in Holds, NEW at \in Times, ReadOwned(g, h, at)
      PROVE IndInv' /\ Kept
  <2> USE <1>5 DEF ReadOwned, MoveReader, tableVars, holdVars
  <2>1. TypeOK'
    BY DEF TypeOK
  <2>2. ReadersNeverClose' /\ MarkedAreStale'
    BY DEF ReadersNeverClose, MarkedAreStale, TypeOK
  <2>3. QED
    BY <2>1, <2>2 DEF Kept, Placed, OffSale, OneLiveHold, UnavailableHasNoHold, Live, TypeOK
<1>6. ASSUME NEW g \in Readers, findEventTableState(g) PROVE IndInv' /\ Kept
  <2> USE <1>6 DEF findEventTableState, MoveReader, tableVars, holdVars
  <2>1. gin[g] \in Holds /\ holdTable[gin[g]] \in Tables
    BY DEF Placed
  <2>2. /\ gstate'[g] \in States
        /\ gstate'[g].status = "UNAVAILABLE" => gstate'[g].expiry = None
    BY <2>1, StateOfTyped DEF OffSale, TypeOK
  <2>3. TypeOK'
    BY <2>1, StateOfTyped DEF TypeOK
  <2>4. ReadersNeverClose' /\ MarkedAreStale'
    BY <2>2 DEF ReadersNeverClose, MarkedAreStale, TypeOK
  <2>5. QED
    BY <2>3, <2>4 DEF Kept, Placed, OffSale, OneLiveHold, UnavailableHasNoHold, Live, TypeOK
<1>7. ASSUME NEW g \in Readers, MarkExpired(g) PROVE IndInv' /\ Kept
  <2> USE <1>7 DEF MarkExpired, MoveReader, tableVars, holdVars, findExpiredHeldByEventTable, HeldOn
  <2>1. TypeOK'
    BY DEF TypeOK
  <2>2. ReadersNeverClose' /\ MarkedAreStale'
    BY DEF ReadersNeverClose, MarkedAreStale, TypeOK
  <2>3. QED
    BY <2>1, <2>2 DEF Kept, Placed, OffSale, OneLiveHold, UnavailableHasNoHold, Live, TypeOK
<1>8. ASSUME NEW g \in Readers, FindActive(g) PROVE IndInv' /\ Kept
  <2> USE <1>8 DEF FindActive, MoveReader, tableVars, holdVars
  <2>1. PICK state \in Reconciled(gstate[g], LatestActive(holdTable[gin[g]], gnow[g])) :
           gnext' = [gnext EXCEPT ![g] = state]
    OBVIOUS
  <2>2. gstate[g] \in States
    BY DEF ReadersNeverClose
  <2>3. /\ state \in States
        /\ state.status = "UNAVAILABLE" => gstate[g].status = "UNAVAILABLE" /\ state.expiry = None
    BY <2>2, ReconciledState, LatestAreHolds
  <2>4. state.status = "UNAVAILABLE" => state = gstate[g]
    BY <2>2, <2>3 DEF ReadersNeverClose, States
  <2>5. TypeOK'
    BY <2>1, <2>3 DEF TypeOK
  <2>6. ReadersNeverClose' /\ MarkedAreStale'
    BY <2>1, <2>3, <2>4 DEF ReadersNeverClose, MarkedAreStale, TypeOK
  <2>7. QED
    BY <2>5, <2>6 DEF Kept, Placed, OffSale, OneLiveHold, UnavailableHasNoHold, Live, TypeOK
<1>9. ASSUME NEW g \in Readers, CommitRead(g) PROVE IndInv' /\ Kept
  <2> DEFINE t == holdTable[gin[g]]
  <2>1. t \in Tables /\ gpc[g] = "write"
    BY <1>9 DEF CommitRead, MoveReader, Placed
  <2>2. gnext[g].status \in TableStatuses /\ gnext[g].expiry \in Expiries \cup {None}
    BY <2>1 DEF ReadersNeverClose, States
  <2>3. /\ tableStatus' \in [Tables -> TableStatuses]
        /\ tableExpiry' \in [Tables -> Expiries \cup {None}]
        /\ \A x \in Tables : tableStatus'[x] = "UNAVAILABLE" =>
              tableStatus[x] = "UNAVAILABLE" /\ tableExpiry'[x] = None
    BY <1>9, <2>1, <2>2 DEF CommitRead, SetTable, tableVars, TypeOK, ReadersNeverClose, OffSale
  <2>4. /\ hold' = [h \in Holds |-> IF h \in marked[g] THEN "EXPIRED" ELSE hold[h]]
        /\ marked' = [marked EXCEPT ![g] = {}]
        /\ gpc' = [gpc EXCEPT ![g] = "done"]
        /\ UNCHANGED <<holdTable, holdExpiry, gin, gnow, gstate, gnext, now>>
    BY <1>9 DEF CommitRead, MoveReader
  <2> HIDE DEF t
  <2>5. TypeOK'
    BY <2>3, <2>4 DEF TypeOK
  <2>6. Kept
    BY <2>4 DEF Kept, TypeOK, MarkedAreStale, Times, Expiries
  <2>7. Placed' /\ OffSale'
    <3>1. Placed'
      <4>1. \A h \in Holds : hold'[h] # "ABSENT" => hold[h] # "ABSENT"
        BY <2>4 DEF TypeOK, MarkedAreStale
      <4>2. \A h \in Holds : hold[h] # "ABSENT" => hold'[h] # "ABSENT"
        BY <2>6 DEF Kept
      <4>3. QED
        BY <2>1, <2>4, <4>1, <4>2 DEF Placed, TypeOK
    <3>2. OffSale'
      BY <2>3, <2>4 DEF OffSale, TypeOK
    <3>3. QED
      BY <3>1, <3>2
  <2>8. ReadersNeverClose' /\ MarkedAreStale'
    BY <2>4, <2>6 DEF ReadersNeverClose, MarkedAreStale, TypeOK
  <2>9. OneLiveHold'
    BY <2>4 DEF OneLiveHold, Live, TypeOK
  <2>10. UnavailableHasNoHold'
    BY <2>3, <2>4 DEF UnavailableHasNoHold, Live, TypeOK, Placed
  <2>11. QED
    BY <2>5, <2>6, <2>7, <2>8, <2>9, <2>10
<1>10. ASSUME NEW g \in Readers, AbortRead(g) PROVE IndInv' /\ Kept
  <2> USE <1>10 DEF AbortRead, MoveReader, tableVars, holdVars
  <2>1. TypeOK'
    BY DEF TypeOK
  <2>2. ReadersNeverClose' /\ MarkedAreStale'
    BY DEF ReadersNeverClose, MarkedAreStale, TypeOK
  <2>3. QED
    BY <2>1, <2>2 DEF Kept, Placed, OffSale, OneLiveHold, UnavailableHasNoHold, Live, TypeOK
<1>11. CASE Tick \/ UNCHANGED vars
  <2> USE <1>11 DEF Tick, vars, tableVars, holdVars, readerVars
  <2>1. TypeOK'
    BY DEF TypeOK, Times
  <2>2. ReadersNeverClose' /\ MarkedAreStale'
    BY DEF ReadersNeverClose, MarkedAreStale, TypeOK, Times
  <2>3. QED
    BY <2>1, <2>2 DEF Kept, Placed, OffSale, OneLiveHold, UnavailableHasNoHold, Live, TypeOK, Times, Expiries
<1>12. QED
  BY <1>1, <1>2, <1>3, <1>4, <1>5, <1>6, <1>7, <1>8, <1>9, <1>10, <1>11 DEF Next

\* The inductive invariant holds in every reachable state.
THEOREM Invariance == Spec => []IndInv
<1>1. QED
  BY InitInd, StepInd, PTL DEF Spec

\* Every reachable state is well typed: the copies a reader works with have
\* the types of the rows it read.
THEOREM TypesHold == Spec => []TypeOK
<1>1. IndInv => TypeOK
  BY DEF IndInv
<1>2. QED
  BY <1>1, Invariance, PTL

\* createHold never gives a table to a second reservation while the first is
\* live, however old the clock of the call is.
THEOREM OneHoldPerTable == Spec => []OneLiveHold
<1>1. IndInv => OneLiveHold
  BY DEF IndInv
<1>2. QED
  BY <1>1, Invariance, PTL

\* A table the organizer took off sale has no live hold.
THEOREM OffSaleIsFree == Spec => []UnavailableHasNoHold
<1>1. IndInv => UnavailableHasNoHold
  BY DEF IndInv
<1>2. QED
  BY <1>1, Invariance, PTL

\* No step shortens, moves or revives a hold.
THEOREM HoldsStayKept == Spec => HoldsAreKept
<1>1. IndInv /\ [Next]_vars => [Kept]_vars
  BY StepInd
<1>2. QED
  BY <1>1, Invariance, PTL DEF Spec, HoldsAreKept, Kept
=============================================================================
