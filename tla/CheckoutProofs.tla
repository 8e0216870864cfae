--------------------------- MODULE CheckoutProofs ---------------------------
(***************************************************************************)
(* Proofs about Checkout, for any number of calls, keys, reservations,     *)
(* payments and verifications.  The two halves of the module are proved    *)
(* with an invariant each: KeysInv, that the keys and the orders name each *)
(* other, and PayInv, that an old answer of the provider that is still to  *)
(* be applied is at least not about money that was never taken.            *)
(***************************************************************************)
EXTENDS Checkout, TLAPS

\* An order is stored under the key of its call, a key names an order, and at
\* most one open transaction has inserted a key that is not yet visible.
KeysInv ==
    /\ \A c \in Calls : cpc[c] # "idle" => ckey[c] \in Keys /\ cres[c] \in Reservations
    /\ \A c \in Calls : cpc[c] = "idle" => answer[c] = None
    /\ \A c \in Calls : order[c] # "ABSENT" =>
          cpc[c] = "done" /\ keyCall[ckey[c]] = c /\ orderRes[c] = cres[c]
    /\ \A k \in Keys : keyCall[k] # None => order[keyCall[k]] # "ABSENT" /\ ckey[keyCall[k]] = k
    /\ \A c \in Calls : cpc[c] = "claimed" => keyCall[ckey[c]] = None
    /\ \A c, d \in Calls : cpc[c] = "claimed" /\ cpc[d] = "claimed" /\ ckey[c] = ckey[d] => c = d
    /\ \A c \in Calls : cpc[c] = "known" => keyCall[ckey[c]] # None

\* A payment belongs to an order, and whoever says SUCCESS is right.
PayInv ==
    /\ \A p \in Payments : IF payment[p] = "ABSENT" THEN payOrder[p] = None
                           ELSE payOrder[p] \in Calls /\ order[payOrder[p]] # "ABSENT"
    /\ \A p \in Payments : provider[p] = "success" => p \in captured
    /\ \A v \in Verifications : vpc[v] = "apply" =>
          /\ vpay[v] \in Payments
          /\ payment[vpay[v]] # "ABSENT"
          /\ vstatus[v] \in ProviderStatuses
          /\ vstatus[v] = "SUCCESS" => vpay[v] \in captured

IndInv == TypeOK /\ KeysInv /\ PayInv /\ OneOrderPerKey /\ CreditedOnce
          /\ PaidHasCredit /\ OnlyPaymentDecides

\* The invariant holds before the first order.
LEMMA InitInd == Init => IndInv
<1> SUFFICES ASSUME Init PROVE IndInv
  OBVIOUS
<1> USE CheckoutAssumption DEF Init
<1>1. TypeOK
  BY DEF TypeOK, ProviderStatuses, RawStatuses
<1>2. KeysInv /\ OneOrderPerKey
  BY DEF KeysInv, OneOrderPerKey
<1>3. PayInv /\ CreditedOnce /\ PaidHasCredit /\ OnlyPaymentDecides
  BY DEF PayInv, CreditedOnce, PaidHasCredit, OnlyPaymentDecides
<1>4. QED
  BY <1>1, <1>2, <1>3 DEF IndInv

\* mapOrderStatus yields a status, PAID for SUCCESS alone.
LEMMA MapOrderStatus ==
  ASSUME NEW status \in ProviderStatuses
  PROVE  /\ mapOrderStatus(status) \in OrderStatuses
         /\ mapOrderStatus(status) # "ABSENT"
         /\ mapOrderStatus(status) = "PAID" <=> status = "SUCCESS"
BY DEF mapOrderStatus, ProviderStatuses, OrderStatuses

\* Whatever word a provider uses, the adapters of the order path read SUCCESS from
\* none but a transaction that it captured.
LEMMA AdaptersReadTrue ==
  ASSUME NEW prov, NEW raw, NEW word \in Words(prov, raw)
  PROVE  /\ paymentStatus(prov, word) \in ProviderStatuses
         /\ paymentStatus(prov, word) = "SUCCESS" => raw = "success"
<1>1. CASE prov = "PAYSTACK"
  BY <1>1 DEF Words, paymentStatus, mapPaystackStatus, ProviderStatuses
<1>2. CASE prov # "PAYSTACK"
  BY <1>2 DEF Words, paymentStatus, mapMomoStatus, ProviderStatuses
<1> QED
  BY <1>1, <1>2

\* What is said of orders and payments survives steps that leave them alone.
LEMMA PayUnchanged ==
  ASSUME IndInv, UNCHANGED <<payVars, providerVars, verifyVars>>,
         \A c \in Calls : order[c] # "ABSENT" => order'[c] = order[c],
         \A c \in Calls : order'[c] = "PAID" => order[c] = "PAID"
  PROVE  PayInv' /\ CreditedOnce' /\ PaidHasCredit' /\ OnlyPaymentDecides'
<1> USE DEF IndInv, payVars, providerVars, verifyVars
<1>1. PayInv'
  BY DEF PayInv
<1>2. CreditedOnce'
  BY DEF CreditedOnce
<1>3. PaidHasCredit'
  BY DEF PaidHasCredit
<1>4. OnlyPaymentDecides'
  BY DEF OnlyPaymentDecides, PayInv
<1>5. QED
  BY <1>1, <1>2, <1>3, <1>4

\* What is said of keys and orders survives steps that only change the status
\* of orders that exist.
LEMMA KeysUnchanged ==
  ASSUME IndInv, UNCHANGED <<keyCall, callVars, orderRes>>,
         \A c \in Calls : order'[c] = "ABSENT" <=> order[c] = "ABSENT"
  PROVE  KeysInv' /\ OneOrderPerKey'
<1> USE DEF IndInv, callVars
<1>1. KeysInv'
  BY DEF KeysInv, TypeOK
<1>2. OneOrderPerKey'
  BY DEF OneOrderPerKey, TypeOK
<1>3. QED
  BY <1>1, <1>2

\* Every step keeps the invariant: one case per action.
LEMMA StepInd == IndInv /\ [Next]_vars => IndInv'
<1> SUFFICES ASSUME IndInv, [Next]_vars PROVE IndInv'
  OBVIOUS
<1> USE CheckoutAssumption DEF IndInv
<1>1. ASSUME NEW r \in Reservations, LoseHold(r) PROVE IndInv'
  <2> USE <1>1 DEF LoseHold, callVars, orderVars
  <2>1. TypeOK'
    BY DEF TypeOK, payVars, providerVars, verifyVars
  <2>2. QED
    BY <2>1, PayUnchanged, KeysUnchanged
<1>2. ASSUME NEW c \in Calls, NEW k \in Keys, NEW r \in Reservations, tryCreatePending(c, k, r)
      PROVE IndInv'
  <2> USE <1>2 DEF tryCreatePending, orderVars
  <2>2. TypeOK'
    BY DEF TypeOK, payVars, providerVars, verifyVars
  <2>3. order[c] = "ABSENT" /\ answer[c] = None /\ \A x \in Keys : keyCall[x] # c
    BY DEF KeysInv
  <2>4. KeysInv'
    BY <2>3 DEF KeysInv, TypeOK, KeyIsFree
  <2>5. OneOrderPerKey'
    BY <2>3 DEF OneOrderPerKey, TypeOK
  <2>6. QED
    BY <2>2, <2>4, <2>5, PayUnchanged
<1>3. ASSUME NEW c \in Calls, CreateOrder(c) PROVE IndInv'
  <2> USE <1>3 DEF CreateOrder, EndCall
  <2>1. PICK a \in {c, None} : answer' = [answer EXCEPT ![c] = a]
    OBVIOUS
  <2>2. ckey[c] \in Keys /\ cres[c] \in Reservations /\ keyCall[ckey[c]] = None
    BY DEF KeysInv
  <2>3. order[c] = "ABSENT" /\ \A x \in Keys : keyCall[x] # c
    BY DEF KeysInv
  <2>4. TypeOK'
    BY <2>1, <2>2 DEF TypeOK, OrderStatuses, payVars, providerVars, verifyVars
  <2>5. \A d \in Calls : order[d] # "ABSENT" => ckey[d] # ckey[c]
    BY <2>2 DEF KeysInv, TypeOK
  <2>6. KeysInv'
    BY <2>1, <2>2, <2>3, <2>5 DEF KeysInv, TypeOK
  <2>7. OneOrderPerKey'
    BY <2>1, <2>2, <2>3, <2>5 DEF OneOrderPerKey, KeysInv, TypeOK
  <2>8. QED
    BY <2>3, <2>4, <2>6, <2>7, PayUnchanged DEF TypeOK
<1>4. ASSUME NEW c \in Calls, ReplayOrder(c) PROVE IndInv'
  <2> USE <1>4 DEF ReplayOrder, EndCall, orderVars
  <2>1. ckey[c] \in Keys /\ keyCall[ckey[c]] \in Calls /\ order[c] = "ABSENT"
    BY DEF KeysInv, TypeOK
  <2>2. TypeOK'
    BY <2>1 DEF TypeOK, payVars, providerVars, verifyVars
  <2>3. KeysInv'
    BY <2>1 DEF KeysInv, TypeOK
  <2>4. OneOrderPerKey'
    BY <2>1 DEF OneOrderPerKey, KeysInv, TypeOK
  <2>5. QED
    BY <2>2, <2>3, <2>4, PayUnchanged
<1>5. ASSUME NEW c \in Calls, RollbackOrder(c) PROVE IndInv'
  <2> USE <1>5 DEF RollbackOrder, EndCall, orderVars
  <2>1. TypeOK'
    BY DEF TypeOK, payVars, providerVars, verifyVars
  <2>2. KeysInv'
    BY DEF KeysInv, TypeOK
  <2>3. OneOrderPerKey'
    BY DEF OneOrderPerKey
  <2>4. QED
    BY <2>1, <2>2, <2>3, PayUnchanged
<1>6. ASSUME NEW p \in Payments, NEW o \in Calls, AddPayment(p, o) PROVE IndInv'
  <2> USE <1>6 DEF AddPayment, orderVars, providerVars, verifyVars
  <2>1. TypeOK'
    BY DEF TypeOK, ProviderStatuses, callVars
  <2>2. PayInv'
    BY DEF PayInv, TypeOK
  <2>3. CreditedOnce'
    BY DEF CreditedOnce, TypeOK
  <2>4. PaidHasCredit'
    BY DEF PaidHasCredit, TypeOK
  <2>5. OnlyPaymentDecides'
    BY DEF OnlyPaymentDecides, PayInv, TypeOK
  <2>6. QED
    BY <2>1, <2>2, <2>3, <2>4, <2>5, KeysUnchanged
<1>7. ASSUME NEW p \in Payments, NEW to \in RawStatuses, ProviderMoves(p, to) PROVE IndInv'
  <2> USE <1>7 DEF ProviderMoves, orderVars, payVars, verifyVars
  <2>1. TypeOK'
    BY DEF TypeOK, callVars
  <2>2. PayInv'
    BY DEF PayInv, TypeOK
  <2>3. CreditedOnce' /\ PaidHasCredit' /\ OnlyPaymentDecides'
    BY DEF CreditedOnce, PaidHasCredit, OnlyPaymentDecides
  <2>4. QED
    BY <2>1, <2>2, <2>3, KeysUnchanged
<1>8. ASSUME NEW v \in Verifications, NEW p \in Payments, NEW claimed \in BOOLEAN,
             verifyPayment(v, p, claimed)
      PROVE IndInv'
  <2>0. PICK word \in Words(ProviderOf[p], provider[p]), to \in {"refused", "apply"} :
           /\ MoveVerification(v, "idle", to)
           /\ vstatus' = [vstatus EXCEPT ![v] = paymentStatus(ProviderOf[p], word)]
    BY <1>8 DEF verifyPayment
  <2>1. /\ paymentStatus(ProviderOf[p], word) \in ProviderStatuses
        /\ paymentStatus(ProviderOf[p], word) = "SUCCESS" => provider[p] = "success"
    BY AdaptersReadTrue
  <2>2. /\ payment[p] # "ABSENT"
        /\ vpay' = [vpay EXCEPT ![v] = p]
        /\ UNCHANGED <<order, payment, credits>>
    BY <1>8 DEF verifyPayment
  <2> USE <2>0, <2>1, <2>2 DEF MoveVerification, providerVars
  <2>3. TypeOK'
    BY DEF TypeOK, callVars
  <2>4. PayInv'
    BY DEF PayInv, TypeOK
  <2>5. CreditedOnce' /\ PaidHasCredit' /\ OnlyPaymentDecides'
    BY DEF CreditedOnce, PaidHasCredit, OnlyPaymentDecides
  <2>6. QED
    BY <2>3, <2>4, <2>5, KeysUnchanged
<1>9. ASSUME NEW v \in Verifications, ApplyVerification(v) PROVE IndInv'
  <2> DEFINE p == vpay[v]
             o == payOrder[p]
             status == vstatus[v]
  <2>1. /\ p \in Payments /\ payment[p] # "ABSENT" /\ o \in Calls /\ order[o] # "ABSENT"
        /\ status \in ProviderStatuses
        /\ status = "SUCCESS" => p \in captured
    BY <1>9 DEF ApplyVerification, MoveVerification, PayInv
  <2>2. /\ vpc' = [vpc EXCEPT ![v] = "done"]
        /\ UNCHANGED <<held, keyCall, callVars, orderRes, payOrder, providerVars, vpay, vstatus>>
        /\ payment[p] # "SUCCESS"
        /\ payment' = [payment EXCEPT ![p] = status]
        /\ order' = [order EXCEPT ![o] = mapOrderStatus(status)]
        /\ status = "SUCCESS" => credits[p] < MaxCredits
        /\ credits' = IF status = "SUCCESS" THEN [credits EXCEPT ![p] = @ + 1] ELSE credits
    BY <1>9 DEF ApplyVerification, MoveVerification, IsOpen, Terminal
  <2>3. /\ mapOrderStatus(status) \in OrderStatuses
        /\ mapOrderStatus(status) # "ABSENT"
        /\ mapOrderStatus(status) = "PAID" <=> status = "SUCCESS"
    BY <2>1, MapOrderStatus
  <2> DEFINE new == mapOrderStatus(status)
  <2> HIDE DEF p, o, status, new
  <2> USE <2>1, <2>2, <2>3 DEF providerVars, new
  <2>4. status # "ABSENT"
    BY DEF ProviderStatuses
  <2>5. TypeOK'
    BY DEF TypeOK, callVars
  <2>6. PayInv'
    BY <2>4 DEF PayInv, TypeOK
  <2>7. CreditedOnce'
    BY DEF CreditedOnce, TypeOK
  <2>8. PaidHasCredit'
    <3> SUFFICES ASSUME NEW x \in Calls, order'[x] = "PAID"
                 PROVE  \E q \in Payments : payOrder'[q] = x /\ payment'[q] = "SUCCESS"
      BY DEF PaidHasCredit
    <3>1. CASE x = o
      BY <3>1 DEF TypeOK, o
    <3>2. CASE x # o
      BY <3>2 DEF TypeOK, PaidHasCredit, o
    <3>3. QED
      BY <3>1, <3>2
  <2>9. OnlyPaymentDecides'
    <3> SUFFICES ASSUME NEW q \in Payments, payment'[q] = "SUCCESS",
                        \A x \in Payments : payOrder[x] = payOrder[q] => x = q
                 PROVE  order'[payOrder[q]] = "PAID"
      BY DEF OnlyPaymentDecides
    <3>1. CASE q = p
      BY <3>1 DEF TypeOK, o
    <3>2. CASE q # p
      BY <3>2 DEF TypeOK, OnlyPaymentDecides, o
    <3>3. QED
      BY <3>1, <3>2
  <2>10. \A c \in Calls : order'[c] = "ABSENT" <=> order[c] = "ABSENT"
    BY DEF TypeOK
  <2>11. QED
    BY <2>5, <2>6, <2>7, <2>8, <2>9, <2>10, KeysUnchanged
<1>10. ASSUME NEW v \in Verifications, RefuseVerification(v) PROVE IndInv'
  <2> USE <1>10 DEF RefuseVerification, MoveVerification, providerVars
  <2>1. TypeOK'
    BY DEF TypeOK, callVars
  <2>2. PayInv'
    BY DEF PayInv, TypeOK
  <2>3. CreditedOnce' /\ PaidHasCredit' /\ OnlyPaymentDecides'
    BY DEF CreditedOnce, PaidHasCredit, OnlyPaymentDecides
  <2>4. QED
    BY <2>1, <2>2, <2>3, KeysUnchanged
<1>11. CASE UNCHANGED vars
  <2>1. TypeOK'
    BY <1>11 DEF vars, callVars, orderVars, payVars, providerVars, verifyVars, TypeOK
  <2>2. QED
    BY <1>11, <2>1, PayUnchanged, KeysUnchanged DEF vars, orderVars
<1>12. QED
  BY <1>1, <1>2, <1>3, <1>4, <1>5, <1>6, <1>7, <1>8, <1>9, <1>10, <1>11 DEF Next

\* The inductive invariant holds in every reachable state.
THEOREM Invariance == Spec => []IndInv
<1>1. QED
  BY InitInd, StepInd, PTL DEF Spec

\* Every reachable state is well typed: keys, orders and answers name
\* calls, and no payment has more ledger entries than the bound.
THEOREM TypesHold == Spec => []TypeOK
<1>1. IndInv => TypeOK
  BY DEF IndInv
<1>2. QED
  BY <1>1, Invariance, PTL

\* CreateOrder creates one order per idempotency key and answers with it.
THEOREM KeyHasOneOrder == Spec => []OneOrderPerKey
<1>1. IndInv => OneOrderPerKey
  BY DEF IndInv
<1>2. QED
  BY <1>1, Invariance, PTL

\* VerifyPayment credits a payment once, and only for money that was taken.
THEOREM PaymentCreditedOnce == Spec => []CreditedOnce
<1>1. IndInv => CreditedOnce
  BY DEF IndInv
<1>2. QED
  BY <1>1, Invariance, PTL

\* An order is PAID only by a credited payment of its own.
THEOREM PaidOrdersHaveCredit == Spec => []PaidHasCredit
<1>1. IndInv => PaidHasCredit
  BY DEF IndInv
<1>2. QED
  BY <1>1, Invariance, PTL

\* No late answer takes back the PAID status that an only payment earned.
THEOREM OnlyPaymentIsDecisive == Spec => []OnlyPaymentDecides
<1>1. IndInv => OnlyPaymentDecides
  BY DEF IndInv
<1>2. QED
  BY <1>1, Invariance, PTL
=============================================================================
