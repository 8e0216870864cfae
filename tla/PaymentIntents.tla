--------------------------- MODULE PaymentIntents ---------------------------
(***************************************************************************)
(* Payment intents: POST /payments/initiate (PaymentsService), the         *)
(* provider webhooks (PaymentVerificationService) and the two external     *)
(* payment providers.  Every HTTP call being served is a process: a        *)
(* member of Requests serves one initiation, a member of Deliveries serves *)
(* one webhook delivery.  A step is one committed database transaction or  *)
(* one provider call; between two steps of a process every other process   *)
(* may run, and the process may die.                                       *)
(*                                                                         *)
(* The provider reference is 'pi_' followed by a prefix of the hash of the *)
(* client's idempotency key, and provider_reference is UNIQUE, so there is *)
(* at most one row per key: intents are indexed by their key, which also   *)
(* stands for the reference.                                               *)
(***************************************************************************)
EXTENDS Providers

CONSTANTS
    Buyers,      \* users that initiate payments
    Keys,        \* idempotency keys (and the provider references built from them)
    Details,     \* the part of a request's fingerprint other than the provider
    Phoned,      \* the Details that give a phone number
    Amounts,     \* prices: an amount in minor units together with its currency
    Requests,    \* calls of initiatePayment
    Deliveries,  \* calls of handleWebhook
    EventIds,    \* values of a Paystack payload's data.id
    Hashes,      \* payload hashes
    Inputs,      \* the initiations that may be requested
    Envelopes,   \* the webhook payloads that may be delivered
    None         \* SQL NULL, an absent value

ASSUME InputAssumption ==
    /\ Phoned \subseteq Details
    /\ Inputs \subseteq [buyer: Buyers, key: Keys, provider: Providers,
                         details: Details, amount: Amounts]

ASSUME ProcessAssumption == Requests \cap Deliveries = {}

\* A payload hash identifies the payload; only the signature header may differ.
ASSUME EnvelopeAssumption ==
    /\ Envelopes \subseteq
         [provider: Providers, dataId: EventIds \cup {None}, payloadHash: Hashes,
          reference: Keys \cup {None}, supported: BOOLEAN, signed: BOOLEAN]
    /\ \A e, f \in Envelopes :
         e.payloadHash = f.payloadHash => e = [f EXCEPT !.signed = e.signed]
    /\ None \notin Envelopes

Statuses == {"ABSENT", "INITIATION_PENDING", "INITIATED", "INITIATION_FAILED",
             "VERIFIED", "FAILED"}

EventStatuses == {"ABSENT", "RECEIVED", "PROCESSED", "REJECTED", "FAILED",
                  "VERIFIED"}

\* What verifyByReference returns; a reply may lack the amount or the currency.
Answers == [reference: Keys, amount: Amounts \cup {None},
            status: VerificationStatuses]

ASSUME NoneAssumption ==
    /\ None \notin Keys
    /\ None \notin Amounts
    /\ None \notin EventIds
    /\ None \notin Inputs
    /\ None \notin Answers

AuditTypes ==
    {"initiation_requested", "initiation_idempotent_replay",
     "initiation_initiated", "initiation_failed",
     "initiation_provider_created_db_update_failed",
     "webhook_received", "webhook_duplicate",
     "webhook_unsupported_event_ignored", "verification_started",
     "verification_provider_mismatch", "verification_mismatch",
     "verification_pending", "verification_failed", "verification_succeeded",
     "transition_verified", "transition_failed", "transition_rejected",
     "transition_skipped_already_processed"}

VARIABLES
    status,     \* payment_intents.status, "ABSENT" when there is no row
    terms,      \* the columns fixed at creation: buyer, fingerprint, amount
    verified,   \* the provider_verified_* columns
    audit,      \* payment_intent_audit_logs: <<intent, event type, process>>
    rpc, rin,   \* a request's progress and input
    dpc, denv,  \* a delivery's progress and payload
    linked,     \* whether the delivery found its intent (payment_intent_id)
    answer,     \* the provider's answer that a delivery holds
    event,      \* processing_status of the provider_webhook_events row that
                \* the delivery created, "ABSENT" if it created none
    charge      \* the provider's transactions, by reference

requestVars == <<rpc, rin>>
deliveryVars == <<dpc, denv, linked, answer>>
vars == <<status, terms, verified, audit, requestVars, deliveryVars, event, charge>>

RequestStates == {"idle", "find", "create", "retry", "replay", "call", "persist",
                  "recordPersistence", "recordFailure", "done", "failed", "crashed"}

DeliveryStates == {"idle", "read", "fresh", "received", "verify", "answered", "done",
                   "crashed"}

TypeOK ==
    /\ status \in [Keys -> Statuses]
    /\ terms \in [Keys -> Inputs \cup {None}]
    /\ verified \in [Keys -> Answers \cup {None}]
    /\ audit \subseteq Keys \X AuditTypes \X (Requests \cup Deliveries)
    /\ rpc \in [Requests -> RequestStates]
    /\ rin \in [Requests -> Inputs \cup {None}]
    /\ dpc \in [Deliveries -> DeliveryStates]
    /\ denv \in [Deliveries -> Envelopes \cup {None}]
    /\ linked \in [Deliveries -> BOOLEAN]
    /\ answer \in [Deliveries -> Answers \cup {None}]
    /\ event \in [Deliveries -> EventStatuses]
    /\ charge \in [Keys -> [raw: RawStatuses, amount: Amounts \cup {None}]]

Init ==
    /\ status = [k \in Keys |-> "ABSENT"]
    /\ terms = [k \in Keys |-> None]
    /\ verified = [k \in Keys |-> None]
    /\ audit = {}
    /\ rpc = [r \in Requests |-> "idle"]
    /\ rin = [r \in Requests |-> None]
    /\ dpc = [d \in Deliveries |-> "idle"]
    /\ denv = [d \in Deliveries |-> None]
    /\ linked = [d \in Deliveries |-> FALSE]
    /\ answer = [d \in Deliveries |-> None]
    /\ event = [d \in Deliveries |-> "ABSENT"]
    /\ charge = [k \in Keys |-> [raw |-> "none", amount |-> None]]

-----------------------------------------------------------------------------
(* Updates of the payment_intents row, one operator per repository method. *)

\* UPDATE ... WHERE id: none of these three looks at the current status.
markRetryPending(k) ==
    /\ status' = [status EXCEPT ![k] = "INITIATION_PENDING"]
    /\ UNCHANGED <<terms, verified>>

markInitiated(k) ==
    /\ status' = [status EXCEPT ![k] = "INITIATED"]
    /\ verified' = [verified EXCEPT ![k] = None]
    /\ UNCHANGED terms

MutantMarkFailed(k) ==
    /\ status' = [status EXCEPT ![k] = "ABSENT"]
    /\ UNCHANGED <<terms, verified>>

markFailed(k) ==
    /\ status' = [status EXCEPT ![k] = "INITIATION_FAILED"]
    /\ UNCHANGED <<terms, verified>>

MutantTransitionable == {"INITIATED", "INITIATION_PENDING", "INITIATION_FAILED", "FAILED"}

\* The WHERE clause that transitionToVerified and transitionToFailed share.
Transitionable == {"INITIATED", "INITIATION_PENDING"}

\* updateMany ... WHERE status IN Transitionable; the columns of the answer.
transitionTo(k, target, a) ==
    /\ status[k] \in Transitionable
    /\ status' = [status EXCEPT ![k] = target]
    /\ verified' = [verified EXCEPT ![k] = a]
    /\ UNCHANGED terms

Log(k, types, p) == audit' = audit \cup ({k} \X types \X {p})

-----------------------------------------------------------------------------
(* PaymentsService.initiatePayment *)

MoveRequest(r, from, to) ==
    /\ rpc[r] = from
    /\ rpc' = [rpc EXCEPT ![r] = to]
    /\ UNCHANGED <<rin, deliveryVars, event>>

\* The checks before the first transaction: the buyer exists, is active and
\* has a verified e-mail address; the event is published, payable and priced;
\* launch control admits the payment.  Module Catalog has the checks on the
\* event; here they pass, with the event's current price, or the call is refused.
InitiatePayment(r, in) ==
    /\ rpc[r] = "idle"
    /\ rin' = [rin EXCEPT ![r] = in]
    /\ rpc' \in {[rpc EXCEPT ![r] = to] : to \in {"find", "failed"}}
    /\ UNCHANGED <<status, terms, verified, audit, deliveryVars, event, charge>>

SameFingerprint(in, row) ==
    /\ in.provider = row.provider
    /\ in.details = row.details

\* findByBuyerAndIdempotency: only this buyer's row is found.
Existing(in) == terms[in.key] # None /\ terms[in.key].buyer = in.buyer

\* First transaction, its read.  It runs at READ COMMITTED and takes no lock,
\* so what it writes below may be based on a stale status.
FindExisting(r) ==
    LET in == rin[r]
        to == IF ~Existing(in) THEN "create"
              ELSE IF ~SameFingerprint(in, terms[in.key]) THEN "failed"
              ELSE IF status[in.key] = "INITIATION_FAILED" THEN "retry"
              ELSE "replay"
    IN /\ MoveRequest(r, "find", to)
       /\ UNCHANGED <<status, terms, verified, audit, charge>>

MutantCreateIntent(r) ==
    LET k == rin[r].key
    IN /\ MoveRequest(r, "create", "call")
       /\ status' = [status EXCEPT ![k] = "INITIATION_PENDING"]
       /\ terms' = [terms EXCEPT ![k] = rin[r]]
       /\ Log(k, {"initiation_requested"}, r)
       /\ UNCHANGED <<verified, charge>>

\* The insert fails on uq_payment_intents_provider_reference when a row with
\* this key exists by now, whoever its buyer is; nothing catches that error.
CreateIntent(r) ==
    LET k == rin[r].key
    IN \/ /\ MoveRequest(r, "create", "call")
          /\ status[k] = "ABSENT"
          /\ status' = [status EXCEPT ![k] = "INITIATION_PENDING"]
          /\ terms' = [terms EXCEPT ![k] = rin[r]]
          /\ Log(k, {"initiation_requested"}, r)
          /\ UNCHANGED <<verified, charge>>
       \/ /\ MoveRequest(r, "create", "failed")
          /\ status[k] # "ABSENT"
          /\ UNCHANGED <<status, terms, verified, audit, charge>>

RetryIntent(r) ==
    /\ MoveRequest(r, "retry", "call")
    /\ markRetryPending(rin[r].key)
    /\ Log(rin[r].key, {"initiation_requested"}, r)
    /\ UNCHANGED charge

ReplayIntent(r) ==
    /\ MoveRequest(r, "replay", "done")
    /\ Log(rin[r].key, {"initiation_idempotent_replay"}, r)
    /\ UNCHANGED <<status, terms, verified, charge>>

\* The provider opens a transaction for a reference it does not know yet.
OpenCharge(k) ==
    charge' = IF charge[k].raw = "none"
              THEN [charge EXCEPT ![k] = [raw |-> "pending", amount |-> terms[k].amount]]
              ELSE charge

\* adapter.initiate, and the check of the reference it returns.  An error says
\* nothing about whether the provider opened the transaction.
CallProvider(r) ==
    /\ rpc[r] = "call"
    /\ \E out \in InitiationOutcomes(rin[r].provider, rin[r].details \in Phoned) :
          /\ MoveRequest(r, "call", IF out.initiated THEN "persist" ELSE "recordFailure")
          /\ IF out.opened THEN OpenCharge(rin[r].key) ELSE UNCHANGED charge
    /\ UNCHANGED <<status, terms, verified, audit>>

\* Second transaction; when it cannot commit the provider's success is kept as
\* a local failure.
PersistInitiated(r) ==
    \/ /\ MoveRequest(r, "persist", "done")
       /\ markInitiated(rin[r].key)
       /\ Log(rin[r].key, {"initiation_initiated"}, r)
       /\ UNCHANGED charge
    \/ /\ MoveRequest(r, "persist", "recordPersistence")
       /\ UNCHANGED <<status, terms, verified, audit, charge>>

\* Its transaction commits, or only the audit row is attempted; either way the
\* InternalServerErrorException is caught by the outer catch of initiatePayment.
recordProviderSuccessPersistenceFailure(r) ==
    LET k == rin[r].key
    IN /\ MoveRequest(r, "recordPersistence", "recordFailure")
       /\ \/ /\ markFailed(k)
             /\ Log(k, {"initiation_provider_created_db_update_failed"}, r)
          \/ /\ UNCHANGED <<status, terms, verified>>
             /\ \/ Log(k, {"initiation_provider_created_db_update_failed"}, r)
                \/ UNCHANGED audit
       /\ UNCHANGED charge

recordInitiationFailure(r) ==
    /\ MoveRequest(r, "recordFailure", "failed")
    /\ markFailed(rin[r].key)
    /\ Log(rin[r].key, {"initiation_failed"}, r)
    /\ UNCHANGED charge

\* The process dies, or a database error that nothing catches ends the call.
AbandonRequest(r) ==
    /\ rpc[r] \notin {"idle", "done", "failed", "crashed"}
    /\ MoveRequest(r, rpc[r], "crashed")
    /\ UNCHANGED <<status, terms, verified, audit, charge>>

-----------------------------------------------------------------------------
(* PaymentVerificationService.handleWebhook *)

\* MoMo payloads, payloads without data.id and payloads whose signature was
\* refused are identified by their hash.
providerEventId(e) ==
    IF e.provider = "PAYSTACK" /\ e.signed /\ e.dataId # None
    THEN <<"id", e.dataId>> ELSE <<"payload", e.payloadHash>>

SameEventId(e, f) ==
    e.provider = f.provider /\ providerEventId(e) = providerEventId(f)

SamePayload(e, f) == e.provider = f.provider /\ e.payloadHash = f.payloadHash

Rows == {x \in Deliveries : event[x] # "ABSENT"}

MutantConflicting(e) == {x \in Rows : SamePayload(denv[x], e)}

\* The rows that make an insert violate one of the two unique indexes of
\* provider_webhook_events.
Conflicting(e) ==
    {x \in Rows : SamePayload(denv[x], e) \/ SameEventId(denv[x], e)}

\* The row createWebhookEvent returns for a duplicate: by payload hash first.
DuplicateOf(e) ==
    LET samePayload == {x \in Rows : SamePayload(denv[x], e)}
    IN IF samePayload # {} THEN samePayload ELSE Conflicting(e)

SetEvent(d, to) == event' = [event EXCEPT ![d] = to]

MoveDelivery(d, from, to) ==
    /\ dpc[d] = from
    /\ dpc' = [dpc EXCEPT ![d] = to]
    /\ UNCHANGED requestVars

Finish(d, from) ==
    /\ MoveDelivery(d, from, "done")
    /\ answer' = [answer EXCEPT ![d] = None]
    /\ UNCHANGED <<denv, linked>>

\* A body that is no JSON object is refused before anything is stored.  Then the
\* signature check; then the intent is read by its reference, outside any
\* transaction.  A bad signature leaves a REJECTED row, unless the payload is
\* known already.
ReceiveWebhook(d, e) ==
    LET accepted == e.provider = "MTN_MOMO" \/ e.signed
        stored == ~accepted /\ Conflicting(e) = {}
        found == accepted /\ e.reference # None /\ terms[e.reference] # None
    IN /\ MoveDelivery(d, "idle", IF accepted THEN "read" ELSE "done")
       /\ denv' = [denv EXCEPT ![d] = e]
       /\ linked' = [linked EXCEPT ![d] = found]
       /\ SetEvent(d, IF stored THEN "REJECTED" ELSE "ABSENT")
       /\ UNCHANGED <<status, terms, verified, audit, answer, charge>>

\* handleDuplicateDelivery: nothing but an audit row, for the intent this
\* delivery found or else the one that the existing row names.
DuplicateDelivery(d) ==
    LET known == IF linked[d] THEN {denv[d].reference}
                 ELSE {denv[x].reference : x \in {y \in DuplicateOf(denv[d]) : linked[y]}}
    IN /\ Finish(d, "read")
       /\ Conflicting(denv[d]) # {}
       /\ audit' = audit \cup (known \X {"webhook_duplicate"} \X {d})
       /\ UNCHANGED <<status, terms, verified, event, charge>>

CreateWebhookEvent(d) ==
    /\ MoveDelivery(d, "read", "fresh")
    /\ Conflicting(denv[d]) = {}
    /\ SetEvent(d, "RECEIVED")
    /\ UNCHANGED <<status, terms, verified, audit, denv, linked, answer, charge>>

Audited(d, types) ==
    audit' = IF linked[d] THEN audit \cup ({denv[d].reference} \X types \X {d})
             ELSE audit

LogReceived(d) ==
    /\ MoveDelivery(d, "fresh", "received")
    /\ Audited(d, {"webhook_received"})
    /\ UNCHANGED <<status, terms, verified, denv, linked, answer, event, charge>>

\* markWebhookProcessed for an event type other than charge.success/failed.
IgnoreUnsupported(d) ==
    /\ Finish(d, "received")
    /\ ~denv[d].supported
    /\ SetEvent(d, "PROCESSED")
    /\ Audited(d, {"webhook_unsupported_event_ignored"})
    /\ UNCHANGED <<status, terms, verified, charge>>

SameProvider(d) == terms[denv[d].reference].provider = denv[d].provider

MutantRejectEnvelope(d) ==
    /\ Finish(d, "received")
    /\ denv[d].supported
    /\ linked[d] /\ ~SameProvider(d)
    /\ SetEvent(d, "REJECTED")
    /\ Audited(d, {"verification_provider_mismatch"})
    /\ UNCHANGED <<status, terms, verified, charge>>

\* rejectWebhook: no reference, no intent, or another provider's intent.
RejectEnvelope(d) ==
    /\ Finish(d, "received")
    /\ denv[d].supported
    /\ ~(linked[d] /\ SameProvider(d))
    /\ SetEvent(d, "REJECTED")
    /\ Audited(d, {"verification_provider_mismatch"})
    /\ UNCHANGED <<status, terms, verified, charge>>

StartVerification(d) ==
    /\ MoveDelivery(d, "received", "verify")
    /\ denv[d].supported
    /\ linked[d] /\ SameProvider(d)
    /\ Audited(d, {"verification_started"})
    /\ UNCHANGED <<status, terms, verified, denv, linked, answer, event, charge>>

\* verifyByReference answers: what the provider says about a transaction,
\* perhaps without its amount, perhaps about another one than asked.
VerifyByReference(d) ==
    \E k \in Keys :
       /\ MoveDelivery(d, "verify", "answered")
       /\ charge[k].raw # "none"
       /\ terms[k].provider = denv[d].provider
       /\ k \in AnswersAbout(denv[d].provider, denv[d].reference, Keys)
       /\ \E m \in {charge[k].amount, None}, word \in Words(terms[k].provider, charge[k].raw) :
             answer' = [answer EXCEPT ![d] =
                [reference |-> k, amount |-> m, status |-> mapStatus(terms[k].provider, word)]]
       /\ UNCHANGED <<status, terms, verified, audit, denv, linked, event, charge>>

\* The verification call failed: the event row becomes FAILED, the delivery is
\* acknowledged, and no later delivery of this event gets past the indexes.
handleVerificationError(d) ==
    /\ Finish(d, "verify")
    /\ SetEvent(d, "FAILED")
    /\ Audited(d, {"verification_failed"})
    /\ UNCHANGED <<status, terms, verified, charge>>

\* The reference, amount and currency checks of handleVerificationResult.
Matches(k, a) == a.reference = k /\ a.amount = terms[k].amount

RejectMismatch(d) ==
    /\ Finish(d, "answered")
    /\ ~Matches(denv[d].reference, answer[d])
    /\ SetEvent(d, "REJECTED")
    /\ Audited(d, {"verification_mismatch"})
    /\ UNCHANGED <<status, terms, verified, charge>>

StillPending(d) ==
    /\ Finish(d, "answered")
    /\ Matches(denv[d].reference, answer[d])
    /\ answer[d].status \in {"PENDING", "UNKNOWN"}
    /\ SetEvent(d, "PROCESSED")
    /\ Audited(d, {"verification_pending"})
    /\ UNCHANGED <<status, terms, verified, charge>>

\* The final answer's target status and the audit rows of a transition to it.
Target(a) == IF a.status = "SUCCESS" THEN "VERIFIED" ELSE "FAILED"

TransitionAudit(a) ==
    IF a.status = "SUCCESS" THEN {"verification_succeeded", "transition_verified"}
    ELSE {"verification_failed", "transition_failed"}

\* applyTerminalTransition: one SERIALIZABLE transaction moves the intent if
\* its status still allows it, and settles the webhook row.
MutantApplyTerminalTransition(d) ==
    LET k == denv[d].reference
        a == answer[d]
    IN /\ Finish(d, "answered")
       /\ Matches(k, a)
       /\ a.status \in {"SUCCESS", "FAILED"}
       /\ transitionTo(k, Target(a), a)
       /\ Audited(d, TransitionAudit(a))
       /\ SetEvent(d, "PROCESSED")
       /\ UNCHANGED charge

applyTerminalTransition(d) ==
    LET k == denv[d].reference
        a == answer[d]
    IN /\ Finish(d, "answered")
       /\ Matches(k, a)
       /\ a.status \in {"SUCCESS", "FAILED"}
       /\ \/ /\ transitionTo(k, Target(a), a)
             /\ Audited(d, TransitionAudit(a))
             /\ SetEvent(d, "VERIFIED")
          \/ /\ status[k] \notin Transitionable
             /\ Audited(d, IF status[k] = "VERIFIED" /\ Target(a) = "VERIFIED"
                           THEN {"transition_skipped_already_processed"}
                           ELSE {"transition_rejected"})
             /\ SetEvent(d, "PROCESSED")
             /\ UNCHANGED <<status, terms, verified>>
       /\ UNCHANGED charge

\* The process dies, or a database error (a serialization failure among them)
\* ends the call; nothing retries it.
AbandonDelivery(d) ==
    /\ dpc[d] \notin {"idle", "done", "crashed"}
    /\ MoveDelivery(d, dpc[d], "crashed")
    /\ answer' = [answer EXCEPT ![d] = None]
    /\ UNCHANGED <<status, terms, verified, audit, denv, linked, event, charge>>

-----------------------------------------------------------------------------
(* The providers (external). *)

\* What is captured may differ from what was asked for.
ProviderSettles(k) ==
    /\ \E new \in RawStatuses :
          /\ Settles(terms[k].provider, charge[k].raw, new)
          /\ \E m \in IF new = "success" THEN Amounts ELSE {charge[k].amount} :
                charge' = [charge EXCEPT ![k] = [raw |-> new, amount |-> m]]
    /\ UNCHANGED <<status, terms, verified, audit, requestVars, deliveryVars, event>>

-----------------------------------------------------------------------------
RequestStep(r) ==
    \/ FindExisting(r) \/ CreateIntent(r) \/ RetryIntent(r) \/ ReplayIntent(r)
    \/ CallProvider(r) \/ PersistInitiated(r)
    \/ recordProviderSuccessPersistenceFailure(r) \/ recordInitiationFailure(r)

DeliveryStep(d) ==
    \/ DuplicateDelivery(d) \/ CreateWebhookEvent(d) \/ LogReceived(d)
    \/ IgnoreUnsupported(d) \/ RejectEnvelope(d) \/ StartVerification(d)
    \/ VerifyByReference(d) \/ handleVerificationError(d)
    \/ RejectMismatch(d) \/ StillPending(d) \/ applyTerminalTransition(d)

Next ==
    \/ \E r \in Requests : \/ \E in \in Inputs : InitiatePayment(r, in)
                           \/ RequestStep(r)
                           \/ AbandonRequest(r)
    \/ \E d \in Deliveries : \/ \E e \in Envelopes : ReceiveWebhook(d, e)
                             \/ DeliveryStep(d)
                             \/ AbandonDelivery(d)
    \/ \E k \in Keys : ProviderSettles(k)

Spec == Init /\ [][Next]_vars

\* A handler that is not killed takes its next step: its awaits are database
\* calls with a transaction timeout and provider calls with a fetch timeout.
Fairness ==
    /\ \A r \in Requests : WF_vars(RequestStep(r))
    /\ \A d \in Deliveries : WF_vars(DeliveryStep(d))

FairSpec == Spec /\ Fairness

-----------------------------------------------------------------------------
(* Properties *)

Captured(k) == charge[k].raw \in {"success", "reversed"}

\* An intent is VERIFIED only if the provider really captured the funds of
\* that very transaction, in the amount and currency of the intent: neither a
\* webhook alone nor a late, partial or foreign answer of verifyByReference
\* gets applyTerminalTransition to VERIFIED.
VerifiedIsCaptured ==
    \A k \in Keys : status[k] = "VERIFIED" =>
        Captured(k) /\ terms[k] # None /\ charge[k].amount = terms[k].amount

\* The deliveries whose transaction moved intent k to a terminal status.
Transitions(k) ==
    {d \in Deliveries : \E t \in {"transition_verified", "transition_failed"} :
                            <<k, t, d>> \in audit}

\* A terminal intent, the webhook row that settled it and the audit trail
\* agree whatever crashed in between: applyTerminalTransition writes all three
\* in one transaction.
TerminalHasEvidence ==
    /\ \A k \in Keys : status[k] \in {"VERIFIED", "FAILED"} =>
          \E d \in Transitions(k) : Target(verified[k]) = status[k]
    /\ \A d \in Deliveries : event[d] = "VERIFIED" <=>
          \E k \in Keys : d \in Transitions(k) /\ denv[d].reference = k

\* However often, in whatever encoding and however concurrently one provider
\* event is delivered, at most one of its deliveries transitions an intent:
\* createWebhookEvent lets only the first one past the unique indexes.
OneTransitionPerEvent ==
    \A d, x \in UNION {Transitions(k) : k \in Keys} :
        d # x => /\ ~SameEventId(denv[d], denv[x])
                 /\ ~SamePayload(denv[d], denv[x])

\* No step turns VERIFIED into FAILED or FAILED into VERIFIED, and no webhook
\* revives an intent whose initiation failed: the status guards of
\* transitionToVerified and transitionToFailed.
NoTerminalSwap ==
    [][\A k \in Keys :
         /\ status[k] = "VERIFIED" => status'[k] # "FAILED"
         /\ status[k] = "FAILED" => status'[k] # "VERIFIED"
         /\ status[k] = "INITIATION_FAILED" => status'[k] \notin {"VERIFIED", "FAILED"}]_vars

\* Concurrent initiations with one key share one row: the buyer, the payload
\* and the price that were stored first are never replaced.
OneIntentPerKey ==
    [][\A k \in Keys : terms[k] # None => terms'[k] = terms[k]]_vars

\* A handler that nobody kills comes to an end, on every path, so that no
\* webhook row stays RECEIVED: no branch of processEnvelope or of
\* initiatePayment is left without a next step.
HandlersFinish ==
    /\ \A r \in Requests : (rpc[r] = "find") ~> (rpc[r] \in {"done", "failed", "crashed"})
    /\ \A d \in Deliveries : (dpc[d] = "read") ~>
          (dpc[d] = "crashed" \/ (dpc[d] = "done" /\ event[d] # "RECEIVED"))

\* What the webhook tests promise of the status guard: distinct webhook events
\* never produce two terminal updates of one intent.
SingleTerminalTransition ==
    \A k \in Keys : \A d, x \in Transitions(k) : d = x

\* What the readiness evidence says of repeated initiation with one key: one
\* provider initiation call, the others being idempotent replays.
OneProviderCallInFlight ==
    \A r, q \in Requests :
        (r # q /\ rpc[r] = "call" /\ rpc[q] = "call") => rin[r].key # rin[q].key
=============================================================================
