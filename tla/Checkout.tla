------------------------------ MODULE Checkout ------------------------------
(***************************************************************************)
(* Orders and the payments that settle them: CreateOrderUseCase with the   *)
(* idempotency keys, VerifyPaymentUseCase with the ledger; for one buyer.  *)
(*                                                                         *)
(* Both use cases run in one SERIALIZABLE transaction.  In CreateOrder the *)
(* first statement is the insert of the key, which waits for a concurrent  *)
(* insert of the same key to end, so the transaction is two steps: the     *)
(* insert, and the rest with the commit.  In VerifyPayment the provider is *)
(* asked before the transaction, so its answer may be old when it is used. *)
(*                                                                         *)
(* The id of an order is random: an order is named after the call that     *)
(* created it.  No code under src/ inserts into payments.                  *)
(***************************************************************************)
EXTENDS Naturals, Providers

CONSTANTS
    Calls,          \* calls of CreateOrder
    Keys, Reservations, Payments,
    Verifications,  \* calls of VerifyPayment
    ProviderOf,     \* payments.provider
    MaxCredits,     \* bound of the ledger entries of a payment
    None

ASSUME CheckoutAssumption ==
    /\ ProviderOf \in [Payments -> Providers]
    /\ MaxCredits \in Nat /\ MaxCredits > 1
    /\ None \notin Calls \cup Keys \cup Reservations \cup Payments

VARIABLES
    held,                       \* reservations that are HELD and not expired
    keyCall,                    \* the call whose response a key stores
    cpc, ckey, cres,            \* a call's progress, key and reservation
    sawHold,                    \* calls whose snapshot shows the hold
    answer,                     \* the order in its response
    order, orderRes,
    payment, payOrder, credits, \* payments, and their entries in the ledger
    provider,                   \* the provider's own view of a payment
    captured,                   \* payments whose money was taken
    vpc, vpay, vstatus          \* a verification's progress, payment, answer

callVars == <<cpc, ckey, cres, sawHold, answer>>
orderVars == <<order, orderRes>>
payVars == <<payment, payOrder, credits>>
providerVars == <<provider, captured>>
verifyVars == <<vpc, vpay, vstatus>>
vars == <<held, keyCall, callVars, orderVars, payVars, providerVars, verifyVars>>

OrderStatuses == {"RESERVED", "PAYMENT_PENDING", "PAID", "FAILED"}

TypeOK ==
    /\ held \subseteq Reservations
    /\ keyCall \in [Keys -> Calls \cup {None}]
    /\ cpc \in [Calls -> {"idle", "claimed", "known", "done"}]
    /\ ckey \in [Calls -> Keys \cup {None}]
    /\ cres \in [Calls -> Reservations \cup {None}]
    /\ sawHold \subseteq Calls
    /\ answer \in [Calls -> Calls \cup {None}]
    /\ order \in [Calls -> OrderStatuses \cup {"ABSENT"}]
    /\ orderRes \in [Calls -> Reservations \cup {None}]
    /\ payment \in [Payments -> ProviderStatuses \cup {"ABSENT"}]
    /\ payOrder \in [Payments -> Calls \cup {None}]
    /\ credits \in [Payments -> 0 .. MaxCredits]
    /\ provider \in [Payments -> RawStatuses]
    /\ captured \subseteq Payments
    /\ vpc \in [Verifications -> {"idle", "apply", "done", "refused"}]
    /\ vpay \in [Verifications -> Payments \cup {None}]
    /\ vstatus \in [Verifications -> ProviderStatuses \cup {"ABSENT"}]

Init ==
    /\ held = Reservations
    /\ keyCall = [k \in Keys |-> None]
    /\ cpc = [c \in Calls |-> "idle"]
    /\ ckey = [c \in Calls |-> None]
    /\ cres = [c \in Calls |-> None]
    /\ sawHold = {}
    /\ answer = [c \in Calls |-> None]
    /\ order = [c \in Calls |-> "ABSENT"]
    /\ orderRes = [c \in Calls |-> None]
    /\ payment = [p \in Payments |-> "ABSENT"]
    /\ payOrder = [p \in Payments |-> None]
    /\ credits = [p \in Payments |-> 0]
    /\ provider = [p \in Payments |-> "pending"]
    /\ captured = {}
    /\ vpc = [v \in Verifications |-> "idle"]
    /\ vpay = [v \in Verifications |-> None]
    /\ vstatus = [v \in Verifications |-> "ABSENT"]

-----------------------------------------------------------------------------
(* CreateOrder *)

\* A reservation expires, is swept, or becomes tickets (module Inventory).
LoseHold(r) ==
    /\ r \in held
    /\ held' = held \ {r}
    /\ UNCHANGED <<keyCall, callVars, orderVars, payVars, providerVars, verifyVars>>

\* The insert of a key waits while a transaction that inserted it is open.
MutantKeyIsFree(c, k) == TRUE

KeyIsFree(c, k) == \A d \in Calls : ~(cpc[d] = "claimed" /\ ckey[d] = k)

\* The first statement of the transaction: its snapshot also decides what the
\* call sees of the reservation.
tryCreatePending(c, k, r) ==
    /\ cpc[c] = "idle"
    /\ KeyIsFree(c, k)
    /\ cpc' = [cpc EXCEPT ![c] = IF keyCall[k] = None THEN "claimed" ELSE "known"]
    /\ ckey' = [ckey EXCEPT ![c] = k]
    /\ cres' = [cres EXCEPT ![c] = r]
    /\ sawHold' = IF r \in held THEN sawHold \cup {c} ELSE sawHold
    /\ UNCHANGED <<held, keyCall, answer, orderVars, payVars, providerVars, verifyVars>>

EndCall(c, from) ==
    /\ cpc[c] = from
    /\ cpc' = [cpc EXCEPT ![c] = "done"]
    /\ UNCHANGED <<held, ckey, cres, sawHold, payVars, providerVars, verifyVars>>

\* The order, the stored response, the audit row and the outbox event commit
\* together; the response may still get lost.
CreateOrder(c) ==
    /\ EndCall(c, "claimed")
    /\ c \in sawHold
    /\ order' = [order EXCEPT ![c] = "RESERVED"]
    /\ orderRes' = [orderRes EXCEPT ![c] = cres[c]]
    /\ keyCall' = [keyCall EXCEPT ![ckey[c]] = c]
    /\ \E a \in {c, None} : answer' = [answer EXCEPT ![c] = a]

\* A known key is answered with its order, if the payload is the same and the
\* reservation still held: what the code does on a database that goes on after
\* the duplicate insert.  RollbackOrder has the outcome on PostgreSQL, so what
\* is checked holds of both.
ReplayOrder(c) ==
    /\ EndCall(c, "known")
    /\ orderRes[keyCall[ckey[c]]] = cres[c]
    /\ c \in sawHold
    /\ answer' = [answer EXCEPT ![c] = keyCall[ckey[c]]]
    /\ UNCHANGED <<keyCall, orderVars>>

\* A refusal, a serialization failure or a crash; the transaction rolls back.
\* PostgreSQL also refuses every statement after the duplicate insert, so a
\* call with a known key may fail whatever its payload.
RollbackOrder(c) ==
    /\ EndCall(c, "claimed") \/ EndCall(c, "known")
    /\ UNCHANGED <<keyCall, answer, orderVars>>

-----------------------------------------------------------------------------
(* The provider, and the rows of payments *)

AddPayment(p, o) ==
    /\ payment[p] = "ABSENT"
    /\ order[o] # "ABSENT"
    /\ payment' = [payment EXCEPT ![p] = "PENDING"]
    /\ payOrder' = [payOrder EXCEPT ![p] = o]
    /\ UNCHANGED <<held, keyCall, callVars, orderVars, credits, providerVars, verifyVars>>

ProviderMoves(p, to) ==
    /\ payment[p] # "ABSENT"
    /\ Settles(ProviderOf[p], provider[p], to)
    /\ provider' = [provider EXCEPT ![p] = to]
    /\ captured' = IF to = "success" THEN captured \cup {p} ELSE captured
    /\ UNCHANGED <<held, keyCall, callVars, orderVars, payVars, verifyVars>>

-----------------------------------------------------------------------------
(* VerifyPayment *)

MoveVerification(v, from, to) ==
    /\ vpc[v] = from
    /\ vpc' = [vpc EXCEPT ![v] = to]
    /\ UNCHANGED <<held, keyCall, callVars, orderRes, payOrder, providerVars>>

\* The provider is asked, and its word read by the adapter; the answer must bear
\* out the claim of success in the notification.  A wrong amount or currency is
\* refused as well, now or later.
verifyPayment(v, p, claimed) ==
    /\ payment[p] # "ABSENT"
    /\ \E word \in Words(ProviderOf[p], provider[p]) :
          LET status == paymentStatus(ProviderOf[p], word)
          IN /\ MoveVerification(v, "idle",
                     IF claimed /\ status # "SUCCESS" THEN "refused" ELSE "apply")
             /\ vstatus' = [vstatus EXCEPT ![v] = status]
    /\ vpay' = [vpay EXCEPT ![v] = p]
    /\ UNCHANGED <<order, payment, credits>>

Terminal == {"SUCCESS", "REFUNDED", "REVERSED"}

MutantMapOrderStatus(status) ==
    CASE status = "FAILED" -> "FAILED"
      [] status = "PENDING" -> "PAYMENT_PENDING"
      [] OTHER -> "PAID"

mapOrderStatus(status) ==
    CASE status = "SUCCESS" -> "PAID"
      [] status = "PENDING" -> "PAYMENT_PENDING"
      [] OTHER -> "FAILED"

MutantIsOpen(p) == TRUE

IsOpen(p) == payment[p] \notin Terminal

MutantApply(v) ==
    LET p == vpay[v]
        status == vstatus[v]
    IN /\ MoveVerification(v, "apply", "done")
       /\ IsOpen(p)
       /\ payment' = [payment EXCEPT ![p] = status]
       /\ order' = [order EXCEPT ![payOrder[p]] =
                       IF @ = "FAILED" THEN @ ELSE mapOrderStatus(status)]
       /\ status = "SUCCESS" => credits[p] < MaxCredits
       /\ credits' = IF status = "SUCCESS" THEN [credits EXCEPT ![p] = @ + 1] ELSE credits
       /\ UNCHANGED <<vpay, vstatus>>

\* The transaction: payment, order and ledger change together.  The order gets
\* the new status whatever it had, from this payment or another one.
ApplyVerification(v) ==
    LET p == vpay[v]
        status == vstatus[v]
    IN /\ MoveVerification(v, "apply", "done")
       /\ IsOpen(p)
       /\ payment' = [payment EXCEPT ![p] = status]
       /\ order' = [order EXCEPT ![payOrder[p]] = mapOrderStatus(status)]
       /\ status = "SUCCESS" => credits[p] < MaxCredits
       /\ credits' = IF status = "SUCCESS" THEN [credits EXCEPT ![p] = @ + 1] ELSE credits
       /\ UNCHANGED <<vpay, vstatus>>

\* PaymentAlreadyProcessedError, a mismatch, a serialization failure, a crash.
RefuseVerification(v) ==
    /\ MoveVerification(v, "apply", "refused")
    /\ UNCHANGED <<order, payment, credits, vpay, vstatus>>

-----------------------------------------------------------------------------
Next ==
    \/ \E r \in Reservations : LoseHold(r)
    \/ \E c \in Calls : \/ \E k \in Keys, r \in Reservations : tryCreatePending(c, k, r)
                        \/ CreateOrder(c)
                        \/ ReplayOrder(c)
                        \/ RollbackOrder(c)
    \/ \E p \in Payments : \/ \E o \in Calls : AddPayment(p, o)
                           \/ \E to \in RawStatuses : ProviderMoves(p, to)
    \/ \E v \in Verifications : \/ \E p \in Payments, claimed \in BOOLEAN : verifyPayment(v, p, claimed)
                                \/ ApplyVerification(v)
                                \/ RefuseVerification(v)

Spec == Init /\ [][Next]_vars

-----------------------------------------------------------------------------
(* Properties *)

\* All calls with one idempotency key that are answered are answered with the
\* same order, which is the only one created under that key, and one for the
\* reservation they asked for.
OneOrderPerKey ==
    /\ \A c, d \in Calls : order[c] # "ABSENT" /\ order[d] # "ABSENT" /\ ckey[c] = ckey[d] => c = d
    /\ \A c \in Calls : answer[c] # None =>
          /\ order[answer[c]] # "ABSENT"
          /\ ckey[answer[c]] = ckey[c]
          /\ orderRes[answer[c]] = cres[c]

\* A payment is credited to the ledger once, exactly when it is SUCCESS, and
\* then its money was really taken: however many notifications are verified at
\* the same time, and however old the provider's answers are.
CreditedOnce ==
    \A p \in Payments :
        /\ credits[p] = IF payment[p] = "SUCCESS" THEN 1 ELSE 0
        /\ payment[p] = "SUCCESS" => p \in captured

\* An order is PAID only by a payment of its own that is credited.
PaidHasCredit ==
    \A o \in Calls : order[o] = "PAID" =>
        \E p \in Payments : payOrder[p] = o /\ payment[p] = "SUCCESS"

\* The only payment of an order decides about it: the order stays PAID as long
\* as that payment is SUCCESS, whatever late answers are applied.
OnlyPaymentDecides ==
    \A p \in Payments :
        payment[p] = "SUCCESS" /\ (\A q \in Payments : payOrder[q] = payOrder[p] => q = p)
            => order[payOrder[p]] = "PAID"
=============================================================================
