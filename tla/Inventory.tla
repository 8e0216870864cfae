------------------------------ MODULE Inventory ------------------------------
(***************************************************************************)
(* One inventory bucket (event, ticket type) of the order path: holding    *)
(* tickets (ReserveInventory), giving expired holds back (SweepExpired-    *)
(* Reservations, ReleaseExpiredReservation), correcting the cached counter *)
(* (ReconcileInventoryDrift) and turning a paid order's hold into tickets  *)
(* (IssueTickets).                                                         *)
(*                                                                         *)
(* Every writer locks the bucket's row and all but an idle reconciliation  *)
(* update it, so the SERIALIZABLE transactions, which abort when the row   *)
(* changed under them, are single steps.  The READ COMMITTED ones are two: *)
(* what they read first, and what they do once they hold the lock.  SQL's  *)
(* NOW() is the time at which a transaction began.                         *)
(***************************************************************************)
EXTENDS Naturals, FiniteSets, Functions

CONSTANTS
    Reservations, Orders,
    Sweeps, Releases, Issuers,  \* calls of the sweep, the release and IssueTickets
    Quantities,                 \* quantities that may be asked for
    Capacity,                   \* capacity_total, which nothing changes
    MinTight,                   \* 50: at this availability the cache is not trusted
    SweepLimit,                 \* reservations that one sweep claims
    HoldTtls,                   \* holdTtlSeconds that may be asked for
    MaxAttempts,                \* attempts of the reference allocator
    MaxTime,                    \* bound of the clock
    None

ASSUME InventoryAssumption ==
    /\ Quantities \subseteq Nat \ {0}
    /\ HoldTtls \subseteq Nat \ {0}
    /\ {Capacity, MinTight, MaxTime, SweepLimit, MaxAttempts} \subseteq Nat
    /\ None \notin Reservations \cup Orders
    /\ IsFiniteSet(Reservations) /\ IsFiniteSet(Orders)

OrderStatuses == {"ABSENT", "RESERVED", "PAYMENT_PENDING", "PAID", "FULFILLED", "FAILED"}

VARIABLES
    reservedCount, soldCount,   \* the bucket's cached counters
    hold,       \* ticket_reservations.status, "ABSENT" when there is no row
    quantity, expiresAt,
    order,      \* orders.status
    reservationId,
    tickets,    \* number of ticket rows of an order
    issuedAt,   \* when they were created
    claimed,    \* rows a sweep has locked; {} when it runs no transaction
    sweepNow,
    rpc, target, releaseNow,    \* a release's progress, reservation and NOW()
    ipc, issuing, attempt,      \* an issuer's progress, order and attempts
    now

countVars == <<reservedCount, soldCount>>
holdVars == <<hold, quantity, expiresAt>>
orderVars == <<order, reservationId, tickets, issuedAt>>
sweepVars == <<claimed, sweepNow>>
releaseVars == <<rpc, target, releaseNow>>
issueVars == <<ipc, issuing, attempt>>
vars == <<countVars, holdVars, orderVars, sweepVars, releaseVars, issueVars, now>>

Times == 0 .. MaxTime

TypeOK ==
    /\ reservedCount \in Nat /\ soldCount \in Nat
    /\ hold \in [Reservations -> {"ABSENT", "HELD", "CONSUMED", "EXPIRED"}]
    /\ quantity \in [Reservations -> Nat]
    /\ expiresAt \in [Reservations -> Nat]
    /\ order \in [Orders -> OrderStatuses]
    /\ reservationId \in [Orders -> Reservations \cup {None}]
    /\ tickets \in [Orders -> Nat]
    /\ issuedAt \in [Orders -> Times]
    /\ claimed \in [Sweeps -> SUBSET Reservations]
    /\ sweepNow \in [Sweeps -> Times]
    /\ rpc \in [Releases -> {"idle", "lock", "done"}]
    /\ target \in [Releases -> Reservations \cup {None}]
    /\ releaseNow \in [Releases -> Times]
    /\ ipc \in [Issuers -> {"idle", "allocate", "done", "failed"}]
    /\ issuing \in [Issuers -> Orders \cup {None}]
    /\ attempt \in [Issuers -> 0 .. MaxAttempts]
    /\ now \in Times

Init ==
    /\ reservedCount = 0 /\ soldCount = 0
    /\ hold = [r \in Reservations |-> "ABSENT"]
    /\ quantity = [r \in Reservations |-> 0]
    /\ expiresAt = [r \in Reservations |-> 0]
    /\ order = [o \in Orders |-> "ABSENT"]
    /\ reservationId = [o \in Orders |-> None]
    /\ tickets = [o \in Orders |-> 0]
    /\ issuedAt = [o \in Orders |-> 0]
    /\ claimed = [w \in Sweeps |-> {}]
    /\ sweepNow = [w \in Sweeps |-> 0]
    /\ rpc = [p \in Releases |-> "idle"]
    /\ target = [p \in Releases |-> None]
    /\ releaseNow = [p \in Releases |-> 0]
    /\ ipc = [i \in Issuers |-> "idle"]
    /\ issuing = [i \in Issuers |-> None]
    /\ attempt = [i \in Issuers |-> 0]
    /\ now = 0

-----------------------------------------------------------------------------
Total(S) == SumFunctionOnSet(quantity, S)

MutantGetActive(t, changed) ==
    Total({r \in Reservations \ changed : hold[r] = "HELD" /\ expiresAt[r] <= t})

\* SELECT SUM(quantity) ... WHERE status = 'HELD' AND expires_at > NOW(), run
\* by a transaction that has already moved the reservations "changed" off HELD.
getActiveReservationQuantity(t, changed) ==
    Total({r \in Reservations \ changed : hold[r] = "HELD" /\ expiresAt[r] > t})

Locked == UNION {claimed[w] : w \in Sweeps}

(* ReserveInventory *)

\* Close to the limit the holds are summed up, otherwise the cache is used.
authoritativeReserved ==
    LET cachedAvailable == Capacity - reservedCount - soldCount
        threshold == IF Capacity \div 20 > MinTight THEN Capacity \div 20 ELSE MinTight
    IN IF cachedAvailable <= threshold THEN getActiveReservationQuantity(now, {})
       ELSE reservedCount

MutantReserveInventory(r, q, ttl) ==
    /\ hold[r] = "ABSENT"
    /\ q + authoritativeReserved <= Capacity
    /\ hold' = [hold EXCEPT ![r] = "HELD"]
    /\ quantity' = [quantity EXCEPT ![r] = q]
    /\ expiresAt' = [expiresAt EXCEPT ![r] = now + ttl]
    /\ reservedCount' = authoritativeReserved + q
    /\ UNCHANGED <<soldCount, orderVars, sweepVars, releaseVars, issueVars, now>>

\* A request for more than what is available changes nothing.
ReserveInventory(r, q, ttl) ==
    /\ hold[r] = "ABSENT"
    /\ q + authoritativeReserved + soldCount <= Capacity
    /\ hold' = [hold EXCEPT ![r] = "HELD"]
    /\ quantity' = [quantity EXCEPT ![r] = q]
    /\ expiresAt' = [expiresAt EXCEPT ![r] = now + ttl]
    /\ reservedCount' = authoritativeReserved + q
    /\ UNCHANGED <<soldCount, orderVars, sweepVars, releaseVars, issueVars, now>>

-----------------------------------------------------------------------------
(* SweepExpiredReservations *)

Claimable == {r \in Reservations \ Locked : hold[r] = "HELD" /\ expiresAt[r] <= now}

\* ORDER BY expires_at ... FOR UPDATE SKIP LOCKED LIMIT: the oldest ones, ties
\* in any order.
claimExpiredHeldReservations(w) ==
    /\ claimed[w] = {}
    /\ \E S \in (SUBSET Claimable) \ {{}} :
          /\ Cardinality(S) <= SweepLimit
          /\ Cardinality(S) < SweepLimit => S = Claimable
          /\ \A r \in S, x \in Claimable \ S : expiresAt[r] <= expiresAt[x]
          /\ claimed' = [claimed EXCEPT ![w] = S]
    /\ sweepNow' = [sweepNow EXCEPT ![w] = now]
    /\ UNCHANGED <<countVars, holdVars, orderVars, releaseVars, issueVars, now>>

\* With the bucket locked the rest of the loop is one step: each reservation
\* expires and the counter is recomputed.
SweepExpiredReservations(w) ==
    /\ claimed[w] # {}
    /\ hold' = [r \in Reservations |-> IF r \in claimed[w] THEN "EXPIRED" ELSE hold[r]]
    /\ reservedCount' = getActiveReservationQuantity(sweepNow[w], claimed[w])
    /\ claimed' = [claimed EXCEPT ![w] = {}]
    /\ sweepNow' = [sweepNow EXCEPT ![w] = 0]
    /\ UNCHANGED <<soldCount, quantity, expiresAt, orderVars, releaseVars, issueVars, now>>

\* A crash, a timeout, or the victim of a deadlock: an issuer or a release that
\* holds the bucket waits for a claimed row while the sweep waits for the bucket.
AbortSweep(w) ==
    /\ claimed[w] # {}
    /\ claimed' = [claimed EXCEPT ![w] = {}]
    /\ sweepNow' = [sweepNow EXCEPT ![w] = 0]
    /\ UNCHANGED <<countVars, holdVars, orderVars, releaseVars, issueVars, now>>

-----------------------------------------------------------------------------
(* ReleaseExpiredReservation *)

\* The reservation is read without a lock.
FindExpired(p, r) ==
    /\ rpc[p] = "idle"
    /\ hold[r] = "HELD" /\ expiresAt[r] <= now
    /\ rpc' = [rpc EXCEPT ![p] = "lock"]
    /\ target' = [target EXCEPT ![p] = r]
    /\ releaseNow' = [releaseNow EXCEPT ![p] = now]
    /\ UNCHANGED <<countVars, holdVars, orderVars, sweepVars, issueVars, now>>

EndRelease(p) ==
    /\ rpc' = [rpc EXCEPT ![p] = "done"]
    /\ target' = [target EXCEPT ![p] = None]
    /\ releaseNow' = [releaseNow EXCEPT ![p] = 0]

MutantRelease(p) ==
    /\ rpc[p] = "lock"
    /\ target[p] \notin Locked
    /\ EndRelease(p)
    /\ hold' = [hold EXCEPT ![target[p]] = "EXPIRED"]
    /\ reservedCount' = reservedCount - quantity[target[p]]
    /\ UNCHANGED <<soldCount, quantity, expiresAt, orderVars, sweepVars, issueVars, now>>

\* Once the bucket is locked, what was read is not looked at again: the status
\* is overwritten, whatever it is by now.  The sum is taken before that.
ReleaseExpiredReservation(p) ==
    /\ rpc[p] = "lock"
    /\ target[p] \notin Locked
    /\ EndRelease(p)
    /\ hold' = [hold EXCEPT ![target[p]] = "EXPIRED"]
    /\ reservedCount' = getActiveReservationQuantity(releaseNow[p], {})
    /\ UNCHANGED <<soldCount, quantity, expiresAt, orderVars, sweepVars, issueVars, now>>

AbortRelease(p) ==
    /\ rpc[p] = "lock"
    /\ EndRelease(p)
    /\ UNCHANGED <<countVars, holdVars, orderVars, sweepVars, issueVars, now>>

(* ReconcileInventoryDrift *)

\* READ COMMITTED too, but it reads nothing before the lock: it began at a time
\* "at", perhaps long before it got the bucket.
ReconcileInventoryDrift(at) ==
    /\ at <= now
    /\ reservedCount # getActiveReservationQuantity(at, {})
    /\ reservedCount' = getActiveReservationQuantity(at, {})
    /\ UNCHANGED <<soldCount, holdVars, orderVars, sweepVars, releaseVars, issueVars, now>>

-----------------------------------------------------------------------------
(* IssueTickets *)

MutantConsumable(o) == order[o] = "PAID"

\* loadValidatedOrderReservation: neither the expiry nor other orders for the
\* same reservation are looked at.
Consumable(o) ==
    /\ order[o] = "PAID"
    /\ reservationId[o] # None
    /\ hold[reservationId[o]] = "HELD"

EndIssue(i, outcome) ==
    /\ ipc' = [ipc EXCEPT ![i] = outcome]
    /\ issuing' = [issuing EXCEPT ![i] = None]
    /\ attempt' = [attempt EXCEPT ![i] = 0]

getReservationQuantity(i, o) ==
    /\ ipc[i] = "idle"
    /\ \/ /\ Consumable(o)
          /\ ipc' = [ipc EXCEPT ![i] = "allocate"]
          /\ issuing' = [issuing EXCEPT ![i] = o]
          /\ UNCHANGED attempt
       \/ /\ ~Consumable(o)
          /\ EndIssue(i, "failed")
    /\ UNCHANGED <<countVars, holdVars, orderVars, sweepVars, releaseVars, now>>

TryAgain(i) ==
    /\ attempt' = [attempt EXCEPT ![i] = @ + 1]
    /\ UNCHANGED <<ipc, issuing>>

MutantIssueWithReferences(i) ==
    LET o == issuing[i]
        r == reservationId[o]
    IN /\ ipc[i] = "allocate"
       /\ attempt[i] < MaxAttempts
       /\ Consumable(o)
       /\ r \notin Locked
       /\ tickets' = [tickets EXCEPT ![o] = @ + quantity[r]]
       /\ issuedAt' = [issuedAt EXCEPT ![o] = now]
       /\ hold' = [hold EXCEPT ![r] = "CONSUMED"]
       /\ reservedCount' = getActiveReservationQuantity(now, {r})
       /\ soldCount' = soldCount + 1
       /\ order' = [order EXCEPT ![o] = "FULFILLED"]
       /\ EndIssue(i, "done") \/ TryAgain(i)
       /\ UNCHANGED <<quantity, expiresAt, reservationId, sweepVars, releaseVars, now>>

\* One attempt's transaction.  Its success may be lost on the way back, in which
\* case the allocator, which takes every known database error for a collision
\* of ticket numbers, makes another attempt.
issueWithReferences(i) ==
    LET o == issuing[i]
        r == reservationId[o]
    IN /\ ipc[i] = "allocate"
       /\ attempt[i] < MaxAttempts
       /\ Consumable(o)
       /\ r \notin Locked
       /\ tickets' = [tickets EXCEPT ![o] = @ + quantity[r]]
       /\ issuedAt' = [issuedAt EXCEPT ![o] = now]
       /\ hold' = [hold EXCEPT ![r] = "CONSUMED"]
       /\ reservedCount' = getActiveReservationQuantity(now, {r})
       /\ soldCount' = soldCount + quantity[r]
       /\ order' = [order EXCEPT ![o] = "FULFILLED"]
       /\ EndIssue(i, "done") \/ TryAgain(i)
       /\ UNCHANGED <<quantity, expiresAt, reservationId, sweepVars, releaseVars, now>>

\* A collision, a serialization failure, a lock that timed out.
FailAttempt(i) ==
    /\ ipc[i] = "allocate"
    /\ attempt[i] < MaxAttempts
    /\ TryAgain(i)
    /\ UNCHANGED <<countVars, holdVars, orderVars, sweepVars, releaseVars, now>>

\* Attempts exhausted, the order no longer valid, or a crash.
AbandonIssue(i) ==
    /\ ipc[i] = "allocate"
    /\ EndIssue(i, "failed")
    /\ UNCHANGED <<countVars, holdVars, orderVars, sweepVars, releaseVars, now>>

-----------------------------------------------------------------------------
(* What CreateOrder and VerifyPayment may do to orders meanwhile. *)

\* The order is created for a reservation that was held and not expired when
\* it was read; several orders may name one reservation.
PlaceOrder(o, r) ==
    /\ order[o] = "ABSENT"
    /\ hold[r] # "ABSENT"
    /\ order' = [order EXCEPT ![o] = "RESERVED"]
    /\ reservationId' = [reservationId EXCEPT ![o] = r]
    /\ UNCHANGED <<countVars, holdVars, tickets, issuedAt, sweepVars, releaseVars,
                   issueVars, now>>

\* VerifyPayment sets the status without looking at it.
SettleOrder(o) ==
    /\ order[o] # "ABSENT"
    /\ order' \in {[order EXCEPT ![o] = st] : st \in {"PAYMENT_PENDING", "PAID", "FAILED"}}
    /\ UNCHANGED <<countVars, holdVars, reservationId, tickets, issuedAt, sweepVars,
                   releaseVars, issueVars, now>>

Tick ==
    /\ now < MaxTime
    /\ now' = now + 1
    /\ UNCHANGED <<countVars, holdVars, orderVars, sweepVars, releaseVars, issueVars>>

-----------------------------------------------------------------------------
Next ==
    \/ \E r \in Reservations, q \in Quantities, ttl \in HoldTtls : ReserveInventory(r, q, ttl)
    \/ \E w \in Sweeps : \/ claimExpiredHeldReservations(w)
                         \/ SweepExpiredReservations(w)
                         \/ AbortSweep(w)
    \/ \E p \in Releases : \/ \E r \in Reservations : FindExpired(p, r)
                           \/ ReleaseExpiredReservation(p)
                           \/ AbortRelease(p)
    \/ \E at \in Times : ReconcileInventoryDrift(at)
    \/ \E i \in Issuers : \/ \E o \in Orders : getReservationQuantity(i, o)
                          \/ issueWithReferences(i)
                          \/ FailAttempt(i)
                          \/ AbandonIssue(i)
    \/ \E o \in Orders : \/ \E r \in Reservations : PlaceOrder(o, r)
                         \/ SettleOrder(o)
    \/ Tick

Spec == Init /\ [][Next]_vars

-----------------------------------------------------------------------------
(* Properties *)

Live == {r \in Reservations : hold[r] = "HELD" /\ expiresAt[r] > now}

LiveHolds == Total(Live)

Sold == {o \in Orders : tickets[o] > 0}

\* The cached counter may lag behind holds that expired, but it never misses a
\* live one: ReserveInventory may trust it away from the limit.
CacheCoversHolds == reservedCount >= LiveHolds

\* A reservation is turned into tickets at most once and in its own quantity,
\* whatever orders share it, whatever payment is settled again, however often
\* IssueTickets is retried after its commit, and although a release may
\* overwrite CONSUMED.
IssuedOnce ==
    /\ \A o, p \in Sold : o # p => reservationId[o] # reservationId[p]
    /\ \A o \in Sold : /\ tickets[o] = quantity[reservationId[o]]
                       /\ hold[reservationId[o]] \in {"CONSUMED", "EXPIRED"}

\* soldCount is the number of ticket rows, through every retry and every crash:
\* rows, counter and reservation change in one transaction of IssueTickets.
SoldCountAgrees == soldCount = SumFunctionOnSet(tickets, Orders)

\* The orders whose tickets were issued while their hold was live.
OnTime == {o \in Sold : issuedAt[o] < expiresAt[reservationId[o]]}

\* Live holds and the tickets that were issued while their hold was live never
\* exceed the capacity.
OnTimeSalesFit == LiveHolds + SumFunctionOnSet(tickets, OnTime) <= Capacity

\* What the oversell test promises: sales never exceed the capacity.
NeverExceedsCapacity == soldCount <= Capacity
=============================================================================
