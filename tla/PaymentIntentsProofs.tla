------------------------ MODULE PaymentIntentsProofs ------------------------
(***************************************************************************)
(* For every number of clients, requests, deliveries, keys, payloads and   *)
(* gates: the types of PaymentIntents, that a VERIFIED intent was captured *)
(* and that its rows are never replaced (IndInv); that the webhook rows    *)
(* and the audit trail agree with the intents (EvidenceInv); and that the  *)
(* payment, ticket and admission services together implement SingleEntry   *)
(* (TicketSystem, EntryInv).                                               *)
(***************************************************************************)
EXTENDS TicketSystem, TLAPS

\* What a handler knows at each point of its code.
HandlersKnow ==
    /\ \A r \in Requests : rpc[r] # "idle" => rin[r] # None
    /\ \A r \in Requests :
          rpc[r] \in {"retry", "replay", "call", "persist", "recordPersistence",
                      "recordFailure"} => terms[rin[r].key] # None
    /\ \A d \in Deliveries : dpc[d] # "idle" => denv[d] # None
    /\ \A d \in Deliveries :
          linked[d] => /\ denv[d] # None
                       /\ denv[d].reference # None
                       /\ terms[denv[d].reference] # None
    /\ \A d \in Deliveries : dpc[d] \in {"verify", "answered"} => linked[d]
    /\ \A d \in Deliveries : dpc[d] = "answered" => answer[d] # None

\* A row exists exactly when its status is set.
RowsHaveTerms == \A k \in Keys : terms[k] = None <=> status[k] = "ABSENT"

\* An answer a handler still holds, SUCCESS, is not outdated by what the
\* provider did since: a captured amount is final.
AnswersAreTrue ==
    \A d \in Deliveries :
        dpc[d] = "answered" /\ answer[d].status = "SUCCESS" =>
            /\ Captured(answer[d].reference)
            /\ \/ answer[d].amount = None
               \/ charge[answer[d].reference].amount = answer[d].amount

IndInv == TypeOK /\ HandlersKnow /\ RowsHaveTerms /\ AnswersAreTrue /\ VerifiedIsCaptured

\* The fields of an initiation.
LEMMA InputFields ==
    \A in \in Inputs : /\ in.buyer \in Buyers /\ in.key \in Keys
                       /\ in.provider \in Providers /\ in.amount \in Amounts
                       /\ in # None
BY InputAssumption, NoneAssumption

\* The fields of a payload.
LEMMA EnvelopeFields ==
    \A e \in Envelopes : e.reference \in Keys \cup {None} /\ e # None
BY EnvelopeAssumption

\* Whatever word a provider uses, the verification adapters read SUCCESS from
\* none but a transaction that it captured.
LEMMA AdaptersReadTrue ==
    ASSUME NEW provider, NEW raw, NEW word \in Words(provider, raw)
    PROVE  /\ mapStatus(provider, word) \in VerificationStatuses
           /\ mapStatus(provider, word) = "SUCCESS" => raw = "success"
<1>1. CASE provider = "PAYSTACK"
  BY <1>1 DEF Words, mapStatus, mapPaystackVerification, VerificationStatuses
<1>2. CASE provider # "PAYSTACK"
  BY <1>2 DEF Words, mapStatus, mapMomoVerification, VerificationStatuses
<1> QED
  BY <1>1, <1>2

\* IndInv holds in the initial state.
LEMMA InitEstablishesIndInv == Init => IndInv
BY DEF Init, IndInv, TypeOK, HandlersKnow, RowsHaveTerms, AnswersAreTrue,
       VerifiedIsCaptured, Statuses, EventStatuses, RequestStates, DeliveryStates,
       RawStatuses

\* Every action of every handler, and of the providers, preserves IndInv.
LEMMA StepPreservesIndInv == IndInv /\ [Next]_vars => IndInv'
<1> SUFFICES ASSUME IndInv, [Next]_vars PROVE IndInv'
  OBVIOUS
<1> USE InputFields, EnvelopeFields, NoneAssumption DEF IndInv, requestVars, deliveryVars
<1>1. ASSUME NEW r \in Requests, NEW in \in Inputs, InitiatePayment(r, in) PROVE IndInv'
  <2>1. TypeOK'
    <3>1. rpc' \in [Requests -> RequestStates]
      BY <1>1 DEF InitiatePayment, TypeOK, RequestStates
    <3> QED
      BY <1>1, <3>1 DEF InitiatePayment, TypeOK
  <2>2. HandlersKnow'
    BY <1>1 DEF InitiatePayment, TypeOK, HandlersKnow, RowsHaveTerms
  <2>3. AnswersAreTrue'
    BY <1>1 DEF InitiatePayment, TypeOK, HandlersKnow, AnswersAreTrue, Captured
  <2>4. RowsHaveTerms' /\ VerifiedIsCaptured'
    BY <1>1 DEF InitiatePayment, RowsHaveTerms, VerifiedIsCaptured, Captured
  <2> QED
    BY <2>1, <2>2, <2>3, <2>4
<1>2. ASSUME NEW r \in Requests, FindExisting(r) PROVE IndInv'
  <2>1. TypeOK'
    BY <1>2 DEF FindExisting, MoveRequest, Existing, SameFingerprint, TypeOK,
        HandlersKnow, Statuses, EventStatuses, RequestStates, DeliveryStates,
        RawStatuses, AuditTypes, Answers, VerificationStatuses
  <2>2. HandlersKnow'
    BY <1>2 DEF FindExisting, MoveRequest, Existing, SameFingerprint, TypeOK,
        HandlersKnow, RowsHaveTerms
  <2>3. AnswersAreTrue'
    BY <1>2 DEF FindExisting, MoveRequest, Existing, SameFingerprint, TypeOK,
        HandlersKnow, AnswersAreTrue, Captured
  <2>4. RowsHaveTerms' /\ VerifiedIsCaptured'
    BY <1>2 DEF FindExisting, RowsHaveTerms, VerifiedIsCaptured, Captured
  <2> QED
    BY <2>1, <2>2, <2>3, <2>4
<1>3. ASSUME NEW r \in Requests, CreateIntent(r) PROVE IndInv'
  <2>1. TypeOK'
    <3>1. audit' \subseteq Keys \X AuditTypes \X (Requests \cup Deliveries)
      BY <1>3 DEF CreateIntent, MoveRequest, Log, TypeOK, HandlersKnow, AuditTypes
    <3>2. rin[r] \in Inputs /\ rin[r].key \in Keys
      BY <1>3 DEF CreateIntent, MoveRequest, TypeOK, HandlersKnow
    <3>3. status' \in [Keys -> Statuses] /\ terms' \in [Keys -> Inputs \cup {None}]
      BY <1>3, <3>2 DEF CreateIntent, TypeOK, Statuses
    <3> QED
      BY <1>3, <3>1, <3>3 DEF CreateIntent, MoveRequest, TypeOK, RequestStates
  <2>2. HandlersKnow'
    BY <1>3 DEF CreateIntent, MoveRequest, Log, TypeOK, HandlersKnow, RowsHaveTerms
  <2>3. RowsHaveTerms'
    BY <1>3 DEF CreateIntent, MoveRequest, Log, TypeOK, HandlersKnow, RowsHaveTerms
  <2>4. AnswersAreTrue'
    BY <1>3 DEF CreateIntent, MoveRequest, Log, TypeOK, HandlersKnow,
        AnswersAreTrue, Captured
  <2>5. VerifiedIsCaptured'
    BY <1>3 DEF CreateIntent, MoveRequest, Log, TypeOK, HandlersKnow, RowsHaveTerms,
        AnswersAreTrue, VerifiedIsCaptured, Captured
  <2> QED
    BY <2>1, <2>2, <2>3, <2>4, <2>5
<1>4. ASSUME NEW r \in Requests, RetryIntent(r) PROVE IndInv'
  <2>1. TypeOK'
    BY <1>4 DEF RetryIntent, MoveRequest, markRetryPending, Log, TypeOK,
        HandlersKnow, Statuses, EventStatuses, RequestStates, DeliveryStates,
        RawStatuses, AuditTypes, Answers, VerificationStatuses
  <2>2. HandlersKnow'
    BY <1>4 DEF RetryIntent, MoveRequest, markRetryPending, Log, TypeOK,
        HandlersKnow, RowsHaveTerms
  <2>3. RowsHaveTerms'
    BY <1>4 DEF RetryIntent, MoveRequest, markRetryPending, Log, TypeOK,
        HandlersKnow, RowsHaveTerms
  <2>4. AnswersAreTrue'
    BY <1>4 DEF RetryIntent, MoveRequest, markRetryPending, Log, TypeOK,
        HandlersKnow, AnswersAreTrue, Captured
  <2>5. VerifiedIsCaptured'
    BY <1>4 DEF RetryIntent, MoveRequest, markRetryPending, Log, TypeOK,
        HandlersKnow, RowsHaveTerms, AnswersAreTrue, VerifiedIsCaptured, Captured
  <2> QED
    BY <2>1, <2>2, <2>3, <2>4, <2>5
<1>5. ASSUME NEW r \in Requests, ReplayIntent(r) PROVE IndInv'
  <2>1. TypeOK'
    BY <1>5 DEF ReplayIntent, MoveRequest, Log, TypeOK, HandlersKnow, Statuses,
        EventStatuses, RequestStates, DeliveryStates, RawStatuses, AuditTypes,
        Answers, VerificationStatuses
  <2>2. HandlersKnow'
    BY <1>5 DEF ReplayIntent, MoveRequest, Log, TypeOK, HandlersKnow, RowsHaveTerms
  <2>3. AnswersAreTrue'
    BY <1>5 DEF ReplayIntent, MoveRequest, Log, TypeOK, HandlersKnow,
        AnswersAreTrue, Captured
  <2>4. RowsHaveTerms' /\ VerifiedIsCaptured'
    BY <1>5 DEF ReplayIntent, RowsHaveTerms, VerifiedIsCaptured, Captured
  <2> QED
    BY <2>1, <2>2, <2>3, <2>4
<1>6. ASSUME NEW r \in Requests, CallProvider(r) PROVE IndInv'
  <2>0. /\ rpc[r] = "call"
        /\ \E to \in {"persist", "recordFailure"} : MoveRequest(r, "call", to)
        /\ OpenCharge(rin[r].key) \/ UNCHANGED charge
        /\ UNCHANGED <<status, terms, verified, audit>>
    BY <1>6 DEF CallProvider
  <2>1. TypeOK'
    <3>1. rin[r].key \in Keys /\ terms[rin[r].key].amount \in Amounts
      BY <2>0 DEF MoveRequest, TypeOK, HandlersKnow
    <3>2. charge' \in [Keys -> [raw: RawStatuses, amount: Amounts \cup {None}]]
      BY <2>0, <3>1 DEF OpenCharge, TypeOK, RawStatuses
    <3> QED
      BY <2>0, <3>2 DEF MoveRequest, TypeOK, RequestStates
  <2>2. HandlersKnow'
    BY <2>0 DEF MoveRequest, OpenCharge, TypeOK, HandlersKnow,
        RowsHaveTerms
  <2>3. RowsHaveTerms'
    BY <2>0 DEF MoveRequest, OpenCharge, TypeOK, HandlersKnow,
        RowsHaveTerms
  <2>4. AnswersAreTrue'
    <3>1. rin[r].key \in Keys
      BY <2>0 DEF MoveRequest, TypeOK, HandlersKnow
    <3>2. \A k \in Keys : Captured(k) => charge'[k] = charge[k]
      BY <2>0, <3>1 DEF OpenCharge, TypeOK, Captured
    <3>3. \A d \in Deliveries : dpc[d] = "answered" => answer[d].reference \in Keys
      BY DEF TypeOK, HandlersKnow, Answers
    <3> QED
      BY <2>0, <3>2, <3>3 DEF MoveRequest, TypeOK, AnswersAreTrue,
          Captured
  <2>5. VerifiedIsCaptured'
    BY <2>0 DEF MoveRequest, OpenCharge, TypeOK, HandlersKnow,
        RowsHaveTerms, AnswersAreTrue, VerifiedIsCaptured, Captured
  <2> QED
    BY <2>1, <2>2, <2>3, <2>4, <2>5
<1>7. ASSUME NEW r \in Requests, PersistInitiated(r) PROVE IndInv'
  <2>1. TypeOK'
    <3>1. audit' \subseteq Keys \X AuditTypes \X (Requests \cup Deliveries)
      BY <1>7 DEF PersistInitiated, MoveRequest, Log, TypeOK, HandlersKnow, AuditTypes
    <3>2. status' \in [Keys -> Statuses]
      BY <1>7 DEF PersistInitiated, markInitiated, TypeOK, Statuses
    <3>3. verified' \in [Keys -> Answers \cup {None}]
      BY <1>7 DEF PersistInitiated, markInitiated, TypeOK
    <3> QED
      BY <1>7, <3>1, <3>2, <3>3 DEF PersistInitiated, MoveRequest, markInitiated, TypeOK,
          RequestStates
  <2>2. HandlersKnow'
    BY <1>7 DEF PersistInitiated, MoveRequest, markInitiated, Log, TypeOK,
        HandlersKnow, RowsHaveTerms
  <2>3. RowsHaveTerms'
    BY <1>7 DEF PersistInitiated, MoveRequest, markInitiated, Log, TypeOK,
        HandlersKnow, RowsHaveTerms
  <2>4. AnswersAreTrue'
    BY <1>7 DEF PersistInitiated, MoveRequest, markInitiated, Log, TypeOK,
        HandlersKnow, AnswersAreTrue, Captured
  <2>5. VerifiedIsCaptured'
    BY <1>7 DEF PersistInitiated, MoveRequest, markInitiated, Log, TypeOK,
        HandlersKnow, RowsHaveTerms, AnswersAreTrue, VerifiedIsCaptured, Captured
  <2> QED
    BY <2>1, <2>2, <2>3, <2>4, <2>5
<1>8. ASSUME NEW r \in Requests, recordProviderSuccessPersistenceFailure(r) PROVE IndInv'
  <2>1. TypeOK'
    <3>1. rin[r].key \in Keys
      BY <1>8 DEF recordProviderSuccessPersistenceFailure, MoveRequest, TypeOK, HandlersKnow
    <3>2. audit' \subseteq Keys \X AuditTypes \X (Requests \cup Deliveries)
      BY <1>8, <3>1 DEF recordProviderSuccessPersistenceFailure, Log, TypeOK, AuditTypes
    <3>3. status' \in [Keys -> Statuses]
      BY <1>8, <3>1 DEF recordProviderSuccessPersistenceFailure, markFailed, TypeOK, Statuses
    <3> QED
      BY <1>8, <3>2, <3>3 DEF recordProviderSuccessPersistenceFailure, markFailed,
          MoveRequest, TypeOK, RequestStates
  <2>2. HandlersKnow'
    BY <1>8 DEF recordProviderSuccessPersistenceFailure, MoveRequest, markFailed,
        Log, TypeOK, HandlersKnow, RowsHaveTerms
  <2>3. RowsHaveTerms'
    BY <1>8 DEF recordProviderSuccessPersistenceFailure, MoveRequest, markFailed,
        Log, TypeOK, HandlersKnow, RowsHaveTerms
  <2>4. AnswersAreTrue'
    BY <1>8 DEF recordProviderSuccessPersistenceFailure, MoveRequest, markFailed,
        Log, TypeOK, HandlersKnow, AnswersAreTrue, Captured
  <2>5. VerifiedIsCaptured'
    BY <1>8 DEF recordProviderSuccessPersistenceFailure, MoveRequest, markFailed,
        Log, TypeOK, HandlersKnow, RowsHaveTerms, AnswersAreTrue,
        VerifiedIsCaptured, Captured
  <2> QED
    BY <2>1, <2>2, <2>3, <2>4, <2>5
<1>9. ASSUME NEW r \in Requests, recordInitiationFailure(r) PROVE IndInv'
  <2>1. TypeOK'
    BY <1>9 DEF recordInitiationFailure, MoveRequest, markFailed, Log, TypeOK,
        HandlersKnow, Statuses, EventStatuses, RequestStates, DeliveryStates,
        RawStatuses, AuditTypes, Answers, VerificationStatuses
  <2>2. HandlersKnow'
    BY <1>9 DEF recordInitiationFailure, MoveRequest, markFailed, Log, TypeOK,
        HandlersKnow, RowsHaveTerms
  <2>3. RowsHaveTerms'
    BY <1>9 DEF recordInitiationFailure, MoveRequest, markFailed, Log, TypeOK,
        HandlersKnow, RowsHaveTerms
  <2>4. AnswersAreTrue'
    BY <1>9 DEF recordInitiationFailure, MoveRequest, markFailed, Log, TypeOK,
        HandlersKnow, AnswersAreTrue, Captured
  <2>5. VerifiedIsCaptured'
    BY <1>9 DEF recordInitiationFailure, MoveRequest, markFailed, Log, TypeOK,
        HandlersKnow, RowsHaveTerms, AnswersAreTrue, VerifiedIsCaptured, Captured
  <2> QED
    BY <2>1, <2>2, <2>3, <2>4, <2>5
<1>10. ASSUME NEW r \in Requests, AbandonRequest(r) PROVE IndInv'
  <2>1. TypeOK'
    BY <1>10 DEF AbandonRequest, MoveRequest, TypeOK, HandlersKnow, Statuses,
        EventStatuses, RequestStates, DeliveryStates, RawStatuses, AuditTypes,
        Answers, VerificationStatuses
  <2>2. HandlersKnow'
    BY <1>10 DEF AbandonRequest, MoveRequest, TypeOK, HandlersKnow, RowsHaveTerms
  <2>3. AnswersAreTrue'
    BY <1>10 DEF AbandonRequest, MoveRequest, TypeOK, HandlersKnow, AnswersAreTrue,
        Captured
  <2>4. RowsHaveTerms' /\ VerifiedIsCaptured'
    BY <1>10 DEF AbandonRequest, RowsHaveTerms, VerifiedIsCaptured, Captured
  <2> QED
    BY <2>1, <2>2, <2>3, <2>4
<1>11. ASSUME NEW d \in Deliveries, NEW e \in Envelopes, ReceiveWebhook(d, e) PROVE IndInv'
  <2>1. TypeOK'
    BY <1>11 DEF ReceiveWebhook, MoveDelivery, SetEvent, TypeOK, HandlersKnow,
        Statuses, EventStatuses, RequestStates, DeliveryStates, RawStatuses,
        AuditTypes, Answers, VerificationStatuses
  <2>2. HandlersKnow'
    <3>1. /\ rpc' = rpc /\ rin' = rin /\ terms' = terms /\ answer' = answer
          /\ dpc[d] = "idle"
          /\ dpc' \in {[dpc EXCEPT ![d] = "read"], [dpc EXCEPT ![d] = "done"]}
          /\ denv' = [denv EXCEPT ![d] = e]
          /\ linked' = [linked EXCEPT ![d] = linked'[d]]
          /\ linked'[d] => e.reference # None /\ terms[e.reference] # None
      BY <1>11 DEF ReceiveWebhook, MoveDelivery, TypeOK
    <3> QED
      BY <3>1 DEF TypeOK, HandlersKnow
  <2>3. AnswersAreTrue'
    BY <1>11 DEF ReceiveWebhook, MoveDelivery, SetEvent, TypeOK, HandlersKnow,
        AnswersAreTrue, Captured
  <2>4. RowsHaveTerms' /\ VerifiedIsCaptured'
    BY <1>11 DEF ReceiveWebhook, RowsHaveTerms, VerifiedIsCaptured, Captured
  <2> QED
    BY <2>1, <2>2, <2>3, <2>4
<1>12. ASSUME NEW d \in Deliveries, DuplicateDelivery(d) PROVE IndInv'
  <2>1. TypeOK'
    <3>1. audit' \subseteq Keys \X AuditTypes \X (Requests \cup Deliveries)
      <4>1. \A x \in Deliveries : linked[x] => denv[x].reference \in Keys
        BY DEF TypeOK, HandlersKnow
      <4> QED
        BY <1>12, <4>1 DEF DuplicateDelivery, DuplicateOf, Conflicting, Rows,
            TypeOK, AuditTypes
    <3> QED
      BY <1>12, <3>1 DEF DuplicateDelivery, MoveDelivery, Finish, TypeOK, DeliveryStates
  <2>2. HandlersKnow'
    BY <1>12 DEF DuplicateDelivery, MoveDelivery, Finish, TypeOK, HandlersKnow,
        RowsHaveTerms
  <2>3. AnswersAreTrue'
    BY <1>12 DEF DuplicateDelivery, MoveDelivery, Finish, TypeOK, HandlersKnow,
        AnswersAreTrue, Captured
  <2>4. RowsHaveTerms' /\ VerifiedIsCaptured'
    BY <1>12 DEF DuplicateDelivery, RowsHaveTerms, VerifiedIsCaptured, Captured
  <2> QED
    BY <2>1, <2>2, <2>3, <2>4
<1>13. ASSUME NEW d \in Deliveries, CreateWebhookEvent(d) PROVE IndInv'
  <2>1. TypeOK'
    BY <1>13 DEF CreateWebhookEvent, MoveDelivery, SetEvent, TypeOK, HandlersKnow,
        Statuses, EventStatuses, RequestStates, DeliveryStates, RawStatuses,
        AuditTypes, Answers, VerificationStatuses
  <2>2. HandlersKnow'
    BY <1>13 DEF CreateWebhookEvent, MoveDelivery, SetEvent, TypeOK, HandlersKnow,
        RowsHaveTerms
  <2>3. AnswersAreTrue'
    BY <1>13 DEF CreateWebhookEvent, MoveDelivery, SetEvent, TypeOK, HandlersKnow,
        AnswersAreTrue, Captured
  <2>4. RowsHaveTerms' /\ VerifiedIsCaptured'
    BY <1>13 DEF CreateWebhookEvent, RowsHaveTerms, VerifiedIsCaptured, Captured
  <2> QED
    BY <2>1, <2>2, <2>3, <2>4
<1>14. ASSUME NEW d \in Deliveries, LogReceived(d) PROVE IndInv'
  <2>1. TypeOK'
    BY <1>14 DEF LogReceived, MoveDelivery, Audited, TypeOK, HandlersKnow,
        Statuses, EventStatuses, RequestStates, DeliveryStates, RawStatuses,
        AuditTypes, Answers, VerificationStatuses
  <2>2. HandlersKnow'
    BY <1>14 DEF LogReceived, MoveDelivery, Audited, TypeOK, HandlersKnow,
        RowsHaveTerms
  <2>3. AnswersAreTrue'
    BY <1>14 DEF LogReceived, MoveDelivery, Audited, TypeOK, HandlersKnow,
        AnswersAreTrue, Captured
  <2>4. RowsHaveTerms' /\ VerifiedIsCaptured'
    BY <1>14 DEF LogReceived, RowsHaveTerms, VerifiedIsCaptured, Captured
  <2> QED
    BY <2>1, <2>2, <2>3, <2>4
<1>15. ASSUME NEW d \in Deliveries, IgnoreUnsupported(d) PROVE IndInv'
  <2>1. TypeOK'
    BY <1>15 DEF IgnoreUnsupported, MoveDelivery, Finish, SetEvent, Audited, TypeOK,
        HandlersKnow, Statuses, EventStatuses, RequestStates, DeliveryStates,
        RawStatuses, AuditTypes, Answers, VerificationStatuses
  <2>2. HandlersKnow'
    BY <1>15 DEF IgnoreUnsupported, MoveDelivery, Finish, SetEvent, Audited, TypeOK,
        HandlersKnow, RowsHaveTerms
  <2>3. AnswersAreTrue'
    BY <1>15 DEF IgnoreUnsupported, MoveDelivery, Finish, SetEvent, Audited, TypeOK,
        HandlersKnow, AnswersAreTrue, Captured
  <2>4. RowsHaveTerms' /\ VerifiedIsCaptured'
    BY <1>15 DEF IgnoreUnsupported, RowsHaveTerms, VerifiedIsCaptured, Captured
  <2> QED
    BY <2>1, <2>2, <2>3, <2>4
<1>16. ASSUME NEW d \in Deliveries, RejectEnvelope(d) PROVE IndInv'
  <2>1. TypeOK'
    BY <1>16 DEF RejectEnvelope, MoveDelivery, Finish, SetEvent, Audited, TypeOK,
        HandlersKnow, Statuses, EventStatuses, RequestStates, DeliveryStates,
        RawStatuses, AuditTypes, Answers, VerificationStatuses
  <2>2. HandlersKnow'
    BY <1>16 DEF RejectEnvelope, MoveDelivery, Finish, SetEvent, Audited, TypeOK,
        HandlersKnow, RowsHaveTerms
  <2>3. AnswersAreTrue'
    BY <1>16 DEF RejectEnvelope, MoveDelivery, Finish, SetEvent, Audited, TypeOK,
        HandlersKnow, AnswersAreTrue, Captured
  <2>4. RowsHaveTerms' /\ VerifiedIsCaptured'
    BY <1>16 DEF RejectEnvelope, RowsHaveTerms, VerifiedIsCaptured, Captured
  <2> QED
    BY <2>1, <2>2, <2>3, <2>4
<1>17. ASSUME NEW d \in Deliveries, StartVerification(d) PROVE IndInv'
  <2>1. TypeOK'
    BY <1>17 DEF StartVerification, MoveDelivery, Audited, TypeOK, HandlersKnow,
        Statuses, EventStatuses, RequestStates, DeliveryStates, RawStatuses,
        AuditTypes, Answers, VerificationStatuses
  <2>2. HandlersKnow'
    BY <1>17 DEF StartVerification, MoveDelivery, Audited, TypeOK, HandlersKnow,
        RowsHaveTerms
  <2>3. AnswersAreTrue'
    BY <1>17 DEF StartVerification, MoveDelivery, Audited, TypeOK, HandlersKnow,
        AnswersAreTrue, Captured
  <2>4. RowsHaveTerms' /\ VerifiedIsCaptured'
    BY <1>17 DEF StartVerification, RowsHaveTerms, VerifiedIsCaptured, Captured
  <2> QED
    BY <2>1, <2>2, <2>3, <2>4
<1>18. ASSUME NEW d \in Deliveries, VerifyByReference(d) PROVE IndInv'
  <2>0. PICK k \in Keys :
           \E m \in {charge[k].amount, None}, word \in Words(terms[k].provider, charge[k].raw) :
              answer' = [answer EXCEPT ![d] = [reference |-> k, amount |-> m,
                            status |-> mapStatus(terms[k].provider, word)]]
    BY <1>18 DEF VerifyByReference
  <2>1. PICK m \in Amounts \cup {None}, word \in Words(terms[k].provider, charge[k].raw) :
           /\ m \in {charge[k].amount, None}
           /\ answer' = [answer EXCEPT ![d] = [reference |-> k, amount |-> m,
                            status |-> mapStatus(terms[k].provider, word)]]
    BY <2>0 DEF TypeOK
  <2>2. /\ mapStatus(terms[k].provider, word) \in VerificationStatuses
        /\ mapStatus(terms[k].provider, word) = "SUCCESS" => charge[k].raw = "success"
    BY <2>1, AdaptersReadTrue
  <2>3. \E a \in Answers : answer' = [answer EXCEPT ![d] = a]
    BY <2>1, <2>2 DEF Answers
  <2>4. TypeOK'
    BY <2>3, <1>18 DEF VerifyByReference, MoveDelivery, TypeOK, DeliveryStates
  <2>5. HandlersKnow'
    BY <1>18, <2>3 DEF VerifyByReference, MoveDelivery, TypeOK, HandlersKnow
  <2>6. AnswersAreTrue'
    <3>1. k \in Keys /\ (mapStatus(terms[k].provider, word) = "SUCCESS" => Captured(k))
      BY <2>1, <2>2 DEF Captured
    <3> QED
      BY <1>18, <2>1, <3>1 DEF VerifyByReference, MoveDelivery, TypeOK,
          AnswersAreTrue, Captured
  <2>7. RowsHaveTerms' /\ VerifiedIsCaptured'
    BY <1>18 DEF VerifyByReference, RowsHaveTerms, VerifiedIsCaptured, Captured
  <2> QED
    BY <2>4, <2>5, <2>6, <2>7
<1>19. ASSUME NEW d \in Deliveries, handleVerificationError(d) PROVE IndInv'
  <2>1. TypeOK'
    BY <1>19 DEF handleVerificationError, MoveDelivery, Finish, SetEvent, Audited,
        TypeOK, HandlersKnow, Statuses, EventStatuses, RequestStates,
        DeliveryStates, RawStatuses, AuditTypes, Answers, VerificationStatuses
  <2>2. HandlersKnow'
    BY <1>19 DEF handleVerificationError, MoveDelivery, Finish, SetEvent, Audited,
        TypeOK, HandlersKnow, RowsHaveTerms
  <2>3. AnswersAreTrue'
    BY <1>19 DEF handleVerificationError, MoveDelivery, Finish, SetEvent, Audited,
        TypeOK, HandlersKnow, AnswersAreTrue, Captured
  <2>4. RowsHaveTerms' /\ VerifiedIsCaptured'
    BY <1>19 DEF handleVerificationError, RowsHaveTerms, VerifiedIsCaptured,
        Captured
  <2> QED
    BY <2>1, <2>2, <2>3, <2>4
<1>20. ASSUME NEW d \in Deliveries, RejectMismatch(d) PROVE IndInv'
  <2>1. TypeOK'
    BY <1>20 DEF RejectMismatch, MoveDelivery, Finish, SetEvent, Audited, TypeOK,
        HandlersKnow, Statuses, EventStatuses, RequestStates, DeliveryStates,
        RawStatuses, AuditTypes, Answers, VerificationStatuses
  <2>2. HandlersKnow'
    BY <1>20 DEF RejectMismatch, MoveDelivery, Finish, SetEvent, Audited, TypeOK,
        HandlersKnow, RowsHaveTerms
  <2>3. AnswersAreTrue'
    BY <1>20 DEF RejectMismatch, MoveDelivery, Finish, SetEvent, Audited, TypeOK,
        HandlersKnow, AnswersAreTrue, Captured
  <2>4. RowsHaveTerms' /\ VerifiedIsCaptured'
    BY <1>20 DEF RejectMismatch, RowsHaveTerms, VerifiedIsCaptured, Captured
  <2> QED
    BY <2>1, <2>2, <2>3, <2>4
<1>21. ASSUME NEW d \in Deliveries, StillPending(d) PROVE IndInv'
  <2>1. TypeOK'
    BY <1>21 DEF StillPending, MoveDelivery, Finish, SetEvent, Audited, TypeOK,
        HandlersKnow, Statuses, EventStatuses, RequestStates, DeliveryStates,
        RawStatuses, AuditTypes, Answers, VerificationStatuses
  <2>2. HandlersKnow'
    BY <1>21 DEF StillPending, MoveDelivery, Finish, SetEvent, Audited, TypeOK,
        HandlersKnow, RowsHaveTerms
  <2>3. AnswersAreTrue'
    BY <1>21 DEF StillPending, MoveDelivery, Finish, SetEvent, Audited, TypeOK,
        HandlersKnow, AnswersAreTrue, Captured
  <2>4. RowsHaveTerms' /\ VerifiedIsCaptured'
    BY <1>21 DEF StillPending, RowsHaveTerms, VerifiedIsCaptured, Captured
  <2> QED
    BY <2>1, <2>2, <2>3, <2>4
<1>22. ASSUME NEW d \in Deliveries, applyTerminalTransition(d) PROVE IndInv'
  <2>1. TypeOK'
    <3>1. denv[d].reference \in Keys /\ answer[d] \in Answers
      BY <1>22 DEF applyTerminalTransition, MoveDelivery, Finish, TypeOK, HandlersKnow
    <3>2. audit' \subseteq Keys \X AuditTypes \X (Requests \cup Deliveries)
      BY <1>22, <3>1 DEF applyTerminalTransition, Audited, TransitionAudit, TypeOK,
          AuditTypes
    <3>3. status' \in [Keys -> Statuses] /\ verified' \in [Keys -> Answers \cup {None}]
      BY <1>22, <3>1 DEF applyTerminalTransition, transitionTo, Target, TypeOK, Statuses
    <3>4. event' \in [Deliveries -> EventStatuses]
      BY <1>22 DEF applyTerminalTransition, SetEvent, TypeOK, EventStatuses
    <3> QED
      BY <1>22, <3>2, <3>3, <3>4 DEF applyTerminalTransition, transitionTo,
          MoveDelivery, Finish, TypeOK, DeliveryStates
  <2>2. HandlersKnow'
    BY <1>22 DEF applyTerminalTransition, MoveDelivery, Finish, SetEvent, Audited,
        transitionTo, Transitionable, Target, TransitionAudit, Matches, TypeOK,
        HandlersKnow, RowsHaveTerms
  <2>3. RowsHaveTerms'
    BY <1>22 DEF applyTerminalTransition, MoveDelivery, Finish, SetEvent, Audited,
        transitionTo, Transitionable, Target, TransitionAudit, Matches, TypeOK,
        HandlersKnow, RowsHaveTerms
  <2>4. AnswersAreTrue'
    BY <1>22 DEF applyTerminalTransition, MoveDelivery, Finish, SetEvent, Audited,
        transitionTo, Transitionable, Target, TransitionAudit, Matches, TypeOK,
        HandlersKnow, AnswersAreTrue, Captured
  <2>5. VerifiedIsCaptured'
    BY <1>22 DEF applyTerminalTransition, MoveDelivery, Finish, SetEvent, Audited,
        transitionTo, Transitionable, Target, TransitionAudit, Matches, TypeOK,
        HandlersKnow, RowsHaveTerms, AnswersAreTrue, VerifiedIsCaptured, Captured
  <2> QED
    BY <2>1, <2>2, <2>3, <2>4, <2>5
<1>23. ASSUME NEW d \in Deliveries, AbandonDelivery(d) PROVE IndInv'
  <2>1. TypeOK'
    BY <1>23 DEF AbandonDelivery, MoveDelivery, TypeOK, HandlersKnow, Statuses,
        EventStatuses, RequestStates, DeliveryStates, RawStatuses, AuditTypes,
        Answers, VerificationStatuses
  <2>2. HandlersKnow'
    BY <1>23 DEF AbandonDelivery, MoveDelivery, TypeOK, HandlersKnow, RowsHaveTerms
  <2>3. AnswersAreTrue'
    BY <1>23 DEF AbandonDelivery, MoveDelivery, TypeOK, HandlersKnow,
        AnswersAreTrue, Captured
  <2>4. RowsHaveTerms' /\ VerifiedIsCaptured'
    BY <1>23 DEF AbandonDelivery, RowsHaveTerms, VerifiedIsCaptured, Captured
  <2> QED
    BY <2>1, <2>2, <2>3, <2>4
<1>24. ASSUME NEW k \in Keys, ProviderSettles(k) PROVE IndInv'
  <2>1. TypeOK'
    BY <1>24 DEF ProviderSettles, Settles, TypeOK, HandlersKnow, Statuses,
        EventStatuses, RequestStates, DeliveryStates, RawStatuses, AuditTypes,
        Answers, VerificationStatuses
  <2>2. HandlersKnow'
    BY <1>24 DEF ProviderSettles, Settles, TypeOK, HandlersKnow, RowsHaveTerms
  <2>3. RowsHaveTerms'
    BY <1>24 DEF ProviderSettles, Settles, TypeOK, HandlersKnow, RowsHaveTerms
  <2>4. AnswersAreTrue'
    BY <1>24 DEF ProviderSettles, Settles, TypeOK, HandlersKnow, AnswersAreTrue,
        Captured
  <2>5. VerifiedIsCaptured'
    BY <1>24 DEF ProviderSettles, Settles, TypeOK, HandlersKnow, RowsHaveTerms,
        AnswersAreTrue, VerifiedIsCaptured, Captured
  <2> QED
    BY <2>1, <2>2, <2>3, <2>4, <2>5
<1>25. CASE UNCHANGED vars
  BY <1>25 DEF vars, TypeOK, HandlersKnow, RowsHaveTerms, AnswersAreTrue,
      VerifiedIsCaptured, Captured
<1> QED
  BY <1>1, <1>2, <1>3, <1>4, <1>5, <1>6, <1>7, <1>8, <1>9, <1>10, <1>11, <1>12,
      <1>13, <1>14, <1>15, <1>16, <1>17, <1>18, <1>19, <1>20, <1>21, <1>22, <1>23,
      <1>24, <1>25 DEF Next, RequestStep, DeliveryStep

\* So IndInv is an invariant.
LEMMA IndInvHolds == Spec => []IndInv
BY InitEstablishesIndInv, StepPreservesIndInv, PTL DEF Spec

\* Every column, handler state and provider record keeps its type, whatever
\* the clients, the webhooks and the providers do.
THEOREM TypesHold == Spec => []TypeOK
<1>1. IndInv => TypeOK
  BY DEF IndInv
<1> QED
  BY IndInvHolds, <1>1, PTL

\* No interleaving of any number of initiations, webhook deliveries, crashes
\* and provider updates makes an intent VERIFIED without the provider having
\* captured exactly its amount.
THEOREM VerifiedMeansCaptured == Spec => []VerifiedIsCaptured
<1>1. IndInv => VerifiedIsCaptured
  BY DEF IndInv
<1> QED
  BY IndInvHolds, <1>1, PTL

\* The terms stored with an intent are never replaced by a later request with
\* the same key, concurrent or not.
THEOREM TermsAreNeverReplaced == Spec => OneIntentPerKey
<1>1. IndInv /\ [Next]_vars =>
        [\A k \in Keys : terms[k] # None => terms'[k] = terms[k]]_vars
  <2> SUFFICES ASSUME IndInv, [Next]_vars, NEW k \in Keys, terms[k] # None
              PROVE terms'[k] = terms[k]
    OBVIOUS
  <2>1. CASE \E r \in Requests : CreateIntent(r)
    BY <2>1 DEF CreateIntent, IndInv, RowsHaveTerms, TypeOK
  <2>2. CASE UNCHANGED terms
    BY <2>2
  <2>3. (\E r \in Requests : CreateIntent(r)) \/ UNCHANGED terms
    BY DEF Next, vars, RequestStep, DeliveryStep, InitiatePayment, FindExisting,
           RetryIntent, markRetryPending, ReplayIntent, CallProvider,
           PersistInitiated, markInitiated, recordProviderSuccessPersistenceFailure,
           markFailed, recordInitiationFailure, AbandonRequest, ReceiveWebhook,
           DuplicateDelivery, CreateWebhookEvent, LogReceived,
           IgnoreUnsupported, RejectEnvelope,
           StartVerification, VerifyByReference, handleVerificationError,
           RejectMismatch, StillPending, applyTerminalTransition, transitionTo,
           AbandonDelivery, ProviderSettles
  <2> QED
    BY <2>1, <2>2, <2>3
<1> QED
  BY IndInvHolds, <1>1, PTL DEF Spec, OneIntentPerKey
-----------------------------------------------------------------------------
(* The evidence of a transition: the audit row, the webhook row, the intent. *)

TransitionTypes == {"transition_verified", "transition_failed"}

Terminal == {"VERIFIED", "FAILED"}

\* A handler that has not reached its insert has no webhook row; one that is
\* past it and still at work has one that is RECEIVED.
EventsFollowHandlers ==
    \A d \in Deliveries :
        /\ dpc[d] \in {"idle", "read"} => event[d] = "ABSENT"
        /\ dpc[d] \in {"fresh", "received", "verify", "answered"} => event[d] = "RECEIVED"
        /\ event[d] # "ABSENT" => denv[d] # None

\* A transition's audit row and its webhook row go together.
TrailMatchesEvents ==
    /\ \A k \in Keys, t \in TransitionTypes, d \in Deliveries :
          <<k, t, d>> \in audit => event[d] = "VERIFIED" /\ denv[d].reference = k
    /\ \A d \in Deliveries : event[d] = "VERIFIED" =>
          \E k \in Keys, t \in TransitionTypes : <<k, t, d>> \in audit

\* A terminal intent has such an audit row, and the columns of its answer.
TerminalHasTrail ==
    \A k \in Keys : status[k] \in Terminal =>
        /\ Target(verified[k]) = status[k]
        /\ \E d \in Deliveries, t \in TransitionTypes : <<k, t, d>> \in audit

\* The two unique indexes of provider_webhook_events.
RowsAreDistinct ==
    \A d, x \in Rows : d # x => /\ ~SameEventId(denv[d], denv[x])
                                /\ ~SamePayload(denv[d], denv[x])

EvidenceInv ==
    EventsFollowHandlers /\ TrailMatchesEvents /\ TerminalHasTrail /\ RowsAreDistinct

\* A step that writes no audit row of a transition.
KeepsTrail ==
    \A k \in Keys, t \in TransitionTypes, d \in Deliveries :
        <<k, t, d>> \in audit' <=> <<k, t, d>> \in audit

\* What initiatePayment may do to an intent: leave it, or take it out of any
\* terminal status it was in.
InitiationEffect ==
    /\ UNCHANGED <<dpc, denv, event>>
    /\ KeepsTrail
    /\ \A k \in Keys : \/ status'[k] = status[k] /\ verified'[k] = verified[k]
                       \/ status'[k] \notin Terminal

\* What a webhook handler does in every step but its insert and its last
\* transaction: it moves on, and perhaps settles its own row.
HandlingEffect(d) ==
    /\ UNCHANGED <<status, verified, denv>>
    /\ KeepsTrail
    /\ dpc[d] # "idle"
    /\ \/ /\ event' = event
          /\ \E to \in {"done", "crashed"} : dpc' = [dpc EXCEPT ![d] = to]
       \/ /\ event' = event
          /\ dpc[d] \in {"fresh", "received", "verify"}
          /\ \E to \in {"received", "verify", "answered"} : dpc' = [dpc EXCEPT ![d] = to]
       \/ /\ dpc[d] \in {"received", "verify", "answered"}
          /\ dpc' = [dpc EXCEPT ![d] = "done"]
          /\ \E s \in {"PROCESSED", "REJECTED", "FAILED"} : event' = [event EXCEPT ![d] = s]

\* Initiations never settle an intent, and what they log is no transition.
LEMMA InitiationsSettleNothing ==
    ASSUME IndInv, NEW r \in Requests,
           RequestStep(r) \/ AbandonRequest(r) \/ \E in \in Inputs : InitiatePayment(r, in)
    PROVE  InitiationEffect
<1> USE InputFields, NoneAssumption DEF IndInv, requestVars, deliveryVars,
        InitiationEffect, KeepsTrail, MoveRequest
<1>0. \A types : types \cap TransitionTypes = {} =>
          \A k : Log(k, types, r) => KeepsTrail
  BY DEF Log
<1>1. CASE \E in \in Inputs : InitiatePayment(r, in)
  BY <1>1 DEF InitiatePayment
<1>2. CASE FindExisting(r)
  BY <1>2 DEF FindExisting
<1>3. CASE CreateIntent(r)
  <2>1. KeepsTrail
    BY <1>0, <1>3 DEF CreateIntent, TransitionTypes
  <2> QED
    BY <2>1, <1>3 DEF CreateIntent, TypeOK, Terminal
<1>4. CASE RetryIntent(r)
  <2>1. KeepsTrail
    BY <1>0, <1>4 DEF RetryIntent, TransitionTypes
  <2> QED
    BY <2>1, <1>4 DEF RetryIntent, markRetryPending, TypeOK, Terminal
<1>5. CASE ReplayIntent(r)
  BY <1>0, <1>5 DEF ReplayIntent, TransitionTypes
<1>6. CASE CallProvider(r)
  BY <1>6 DEF CallProvider
<1>7. CASE PersistInitiated(r)
  <2>1. KeepsTrail
    BY <1>0, <1>7 DEF PersistInitiated, TransitionTypes
  <2> QED
    BY <2>1, <1>7 DEF PersistInitiated, markInitiated, TypeOK, Terminal
<1>8. CASE recordProviderSuccessPersistenceFailure(r)
  <2>1. KeepsTrail
    BY <1>0, <1>8 DEF recordProviderSuccessPersistenceFailure, TransitionTypes
  <2> QED
    BY <2>1, <1>8 DEF recordProviderSuccessPersistenceFailure, markFailed, TypeOK, Terminal
<1>9. CASE recordInitiationFailure(r)
  <2>1. KeepsTrail
    BY <1>0, <1>9 DEF recordInitiationFailure, TransitionTypes
  <2> QED
    BY <2>1, <1>9 DEF recordInitiationFailure, markFailed, TypeOK, Terminal
<1>10. CASE AbandonRequest(r)
  BY <1>10 DEF AbandonRequest
<1> QED
  BY <1>1, <1>2, <1>3, <1>4, <1>5, <1>6, <1>7, <1>8, <1>9, <1>10 DEF RequestStep
\* The audit rows of a delivery that is not in its last transaction are no
\* transitions.
LEMMA OtherAuditsKeepTrail ==
    ASSUME NEW d \in Deliveries, NEW types, types \cap TransitionTypes = {}, Audited(d, types)
    PROVE  KeepsTrail
BY DEF Audited, KeepsTrail

\* So it goes for each step of a delivery but three: the receipt, the insert
\* and the last transaction.
LEMMA HandlersSettleTheirRow ==
    ASSUME IndInv, NEW d \in Deliveries,
           \/ DuplicateDelivery(d) \/ LogReceived(d) \/ IgnoreUnsupported(d)
           \/ RejectEnvelope(d) \/ StartVerification(d) \/ VerifyByReference(d)
           \/ handleVerificationError(d) \/ RejectMismatch(d) \/ StillPending(d)
           \/ AbandonDelivery(d)
    PROVE  HandlingEffect(d)
<1> USE OtherAuditsKeepTrail DEF Finish, MoveDelivery, SetEvent, TransitionTypes
<1>1. CASE DuplicateDelivery(d)
  <2>1. KeepsTrail
    BY <1>1 DEF DuplicateDelivery, KeepsTrail
  <2> QED
    BY <1>1, <2>1 DEF DuplicateDelivery, HandlingEffect
<1>2. CASE LogReceived(d)
  <2>1. KeepsTrail
    BY <1>2 DEF LogReceived
  <2> QED
    BY <1>2, <2>1 DEF LogReceived, HandlingEffect
<1>3. CASE IgnoreUnsupported(d)
  <2>1. KeepsTrail
    BY <1>3 DEF IgnoreUnsupported
  <2> QED
    BY <1>3, <2>1 DEF IgnoreUnsupported, HandlingEffect
<1>4. CASE RejectEnvelope(d)
  <2>1. KeepsTrail
    BY <1>4 DEF RejectEnvelope
  <2> QED
    BY <1>4, <2>1 DEF RejectEnvelope, HandlingEffect
<1>5. CASE StartVerification(d)
  <2>1. KeepsTrail
    BY <1>5 DEF StartVerification
  <2> QED
    BY <1>5, <2>1 DEF StartVerification, HandlingEffect
<1>6. CASE VerifyByReference(d)
  BY <1>6 DEF VerifyByReference, KeepsTrail, HandlingEffect
<1>7. CASE handleVerificationError(d)
  <2>1. KeepsTrail
    BY <1>7 DEF handleVerificationError
  <2> QED
    BY <1>7, <2>1 DEF handleVerificationError, HandlingEffect
<1>8. CASE RejectMismatch(d)
  <2>1. KeepsTrail
    BY <1>8 DEF RejectMismatch
  <2> QED
    BY <1>8, <2>1 DEF RejectMismatch, HandlingEffect
<1>9. CASE StillPending(d)
  <2>1. KeepsTrail
    BY <1>9 DEF StillPending
  <2> QED
    BY <1>9, <2>1 DEF StillPending, HandlingEffect
<1>10. CASE AbandonDelivery(d)
  BY <1>10 DEF AbandonDelivery, KeepsTrail, HandlingEffect
<1> QED
  BY <1>1, <1>2, <1>3, <1>4, <1>5, <1>6, <1>7, <1>8, <1>9, <1>10

\* The last transaction of a delivery either writes all three pieces of
\* evidence, on an intent that was not terminal, or none of them.
LEMMA LastTransactionIsAtomic ==
    ASSUME IndInv, NEW d \in Deliveries, applyTerminalTransition(d)
    PROVE  \/ HandlingEffect(d)
           \/ \E k \in Keys, t \in TransitionTypes :
                /\ k = denv[d].reference
                /\ dpc[d] = "answered"
                /\ dpc' = [dpc EXCEPT ![d] = "done"]
                /\ denv' = denv
                /\ event' = [event EXCEPT ![d] = "VERIFIED"]
                /\ status[k] \in Transitionable
                /\ verified' = [verified EXCEPT ![k] = answer[d]]
                /\ status' = [status EXCEPT ![k] = Target(answer[d])]
                /\ \A j \in Keys, s \in TransitionTypes, x \in Deliveries :
                      <<j, s, x>> \in audit' <=>
                          <<j, s, x>> \in audit \/ <<j, s, x>> = <<k, t, d>>
<1> DEFINE k == denv[d].reference
           a == answer[d]
<1>1. dpc[d] = "answered" /\ linked[d] /\ k \in Keys
  BY EnvelopeFields DEF applyTerminalTransition, Finish, MoveDelivery, IndInv, HandlersKnow,
      TypeOK
<1>2. CASE /\ transitionTo(k, Target(a), a)
           /\ Audited(d, TransitionAudit(a))
           /\ SetEvent(d, "VERIFIED")
  <2>1. PICK t \in TransitionTypes : TransitionAudit(a) \cap TransitionTypes = {t}
    BY DEF TransitionAudit, TransitionTypes
  <2>2. \A j \in Keys, s \in TransitionTypes, x \in Deliveries :
           <<j, s, x>> \in audit' <=> <<j, s, x>> \in audit \/ <<j, s, x>> = <<k, t, d>>
    BY <1>1, <1>2, <2>1 DEF Audited
  <2>3. /\ dpc' = [dpc EXCEPT ![d] = "done"]
        /\ denv' = denv
        /\ event' = [event EXCEPT ![d] = "VERIFIED"]
        /\ status[k] \in Transitionable
        /\ verified' = [verified EXCEPT ![k] = a]
        /\ status' = [status EXCEPT ![k] = Target(a)]
    BY <1>2 DEF applyTerminalTransition, Finish, MoveDelivery, transitionTo, SetEvent
  <2> QED
    BY <1>1, <2>1, <2>2, <2>3
<1>3. CASE \E types : /\ types \cap TransitionTypes = {}
                      /\ Audited(d, types)
                      /\ SetEvent(d, "PROCESSED")
                      /\ UNCHANGED <<status, terms, verified>>
  <2>1. KeepsTrail
    BY <1>3, OtherAuditsKeepTrail
  <2> QED
    BY <1>1, <1>3, <2>1 DEF applyTerminalTransition, Finish, MoveDelivery, SetEvent,
        HandlingEffect
<1>4. ASSUME Audited(d, IF status[k] = "VERIFIED" /\ Target(a) = "VERIFIED"
                        THEN {"transition_skipped_already_processed"}
                        ELSE {"transition_rejected"})
      PROVE \E types : types \cap TransitionTypes = {} /\ Audited(d, types)
  BY <1>4 DEF TransitionTypes
<1> QED
  BY <1>2, <1>3, <1>4 DEF applyTerminalTransition

\* The evidence is empty to begin with.
LEMMA InitEstablishesEvidence == Init => EvidenceInv
BY DEF Init, EvidenceInv, EventsFollowHandlers, TrailMatchesEvents, TerminalHasTrail,
       RowsAreDistinct, Rows, Terminal

\* An action that leaves the evidence alone, or only moves one handler on,
\* preserves it.
LEMMA HandlingPreservesEvidence ==
    ASSUME IndInv, EvidenceInv, NEW d \in Deliveries, HandlingEffect(d)
    PROVE  EvidenceInv'
<1> USE DEF IndInv, EvidenceInv
<1>1. /\ \A x \in Deliveries : x # d => event'[x] = event[x] /\ dpc'[x] = dpc[x]
      /\ event[d] = "ABSENT" <=> event'[d] = "ABSENT"
      /\ event[d] = "VERIFIED" <=> event'[d] = "VERIFIED"
      /\ UNCHANGED <<status, verified, denv>>
      /\ KeepsTrail
  BY DEF HandlingEffect, TypeOK, EventsFollowHandlers
<1>2. EventsFollowHandlers'
  <2>1. /\ dpc'[d] \notin {"idle", "read"}
        /\ dpc'[d] \in {"fresh", "received", "verify", "answered"} => event'[d] = "RECEIVED"
    BY DEF HandlingEffect, TypeOK, EventsFollowHandlers
  <2> QED
    BY <1>1, <2>1 DEF EventsFollowHandlers
<1>3. TrailMatchesEvents'
  BY <1>1 DEF TrailMatchesEvents, KeepsTrail
<1>4. TerminalHasTrail'
  BY <1>1 DEF TerminalHasTrail, KeepsTrail, Target
<1>5. RowsAreDistinct'
  <2>1. Rows' = Rows
    BY <1>1 DEF Rows
  <2> QED
    BY <1>1, <2>1 DEF RowsAreDistinct, SameEventId, SamePayload, providerEventId
<1> QED
  BY <1>2, <1>3, <1>4, <1>5
\* An insert that meets no conflict keeps the rows of the two unique indexes
\* distinct.
LEMMA InsertKeepsRowsDistinct ==
    ASSUME RowsAreDistinct, NEW d \in Deliveries, NEW e, Conflicting(e) = {},
           Rows' = Rows \cup {d}, denv'[d] = e, \A x \in Rows : x # d => denv'[x] = denv[x],
           d \notin Rows
    PROVE  RowsAreDistinct'
<1>1. \A x \in Rows : ~SamePayload(denv[x], e) /\ ~SameEventId(denv[x], e)
  BY DEF Conflicting
<1>2. \A x \in Rows : ~SamePayload(e, denv[x]) /\ ~SameEventId(e, denv[x])
  BY <1>1 DEF SamePayload, SameEventId, providerEventId
<1>3. ASSUME NEW x \in Rows', NEW y \in Rows', x # y
      PROVE  ~SameEventId(denv'[x], denv'[y]) /\ ~SamePayload(denv'[x], denv'[y])
  <2>1. CASE x = d
    BY <2>1, <1>3, <1>2
  <2>2. CASE y = d
    BY <2>2, <1>3, <1>1
  <2>3. CASE x \in Rows /\ y \in Rows /\ x # d /\ y # d
    BY <2>3, <1>3 DEF RowsAreDistinct
  <2> QED
    BY <2>1, <2>2, <2>3, <1>3
<1> QED
  BY <1>3 DEF RowsAreDistinct, SameEventId, SamePayload, providerEventId

\* The evidence stays consistent, whatever step is taken.
LEMMA StepPreservesEvidence == IndInv /\ EvidenceInv /\ [Next]_vars => EvidenceInv'
<1> SUFFICES ASSUME IndInv, EvidenceInv, [Next]_vars PROVE EvidenceInv'
  OBVIOUS
<1> USE DEF IndInv, EvidenceInv
<1>1. ASSUME InitiationEffect PROVE EvidenceInv'
  <2>1. EventsFollowHandlers' /\ TrailMatchesEvents'
    BY <1>1 DEF InitiationEffect, KeepsTrail, EventsFollowHandlers, TrailMatchesEvents
  <2>2. TerminalHasTrail'
    BY <1>1 DEF InitiationEffect, KeepsTrail, TerminalHasTrail, Target
  <2>3. RowsAreDistinct'
    BY <1>1 DEF InitiationEffect, RowsAreDistinct, Rows, SameEventId, SamePayload,
        providerEventId
  <2> QED
    BY <2>1, <2>2, <2>3
<1>2. ASSUME NEW d \in Deliveries, NEW e \in Envelopes, ReceiveWebhook(d, e)
      PROVE  EvidenceInv'
  <2>1. /\ dpc[d] = "idle" /\ event[d] = "ABSENT" /\ d \notin Rows
        /\ dpc' \in {[dpc EXCEPT ![d] = "read"], [dpc EXCEPT ![d] = "done"]}
        /\ denv' = [denv EXCEPT ![d] = e]
        /\ UNCHANGED <<status, verified, audit>>
    BY <1>2 DEF ReceiveWebhook, MoveDelivery, EventsFollowHandlers, Rows
  <2>2. \/ event' = [event EXCEPT ![d] = "ABSENT"]
        \/ /\ event' = [event EXCEPT ![d] = "REJECTED"]
           /\ dpc' = [dpc EXCEPT ![d] = "done"]
           /\ Conflicting(e) = {}
    BY <1>2 DEF ReceiveWebhook, MoveDelivery, SetEvent
  <2>3. EventsFollowHandlers'
    BY <2>1, <2>2, EnvelopeFields DEF EventsFollowHandlers, TypeOK
  <2>4. TrailMatchesEvents'
    <3>1. /\ \A x \in Deliveries : x # d => event'[x] = event[x] /\ denv'[x] = denv[x]
          /\ event[d] # "VERIFIED" /\ event'[d] # "VERIFIED"
      BY <2>1, <2>2 DEF TypeOK
    <3> QED
      BY <2>1, <3>1 DEF TrailMatchesEvents
  <2>5. TerminalHasTrail'
    BY <2>1 DEF TerminalHasTrail, Target
  <2>6. CASE event' = [event EXCEPT ![d] = "ABSENT"]
    <3>1. Rows' = Rows /\ \A x \in Rows : denv'[x] = denv[x]
      BY <2>1, <2>6 DEF Rows, TypeOK
    <3>2. RowsAreDistinct'
      BY <3>1 DEF RowsAreDistinct, SameEventId, SamePayload, providerEventId
    <3> QED
      BY <2>3, <2>4, <2>5, <3>2
  <2>7. CASE event' = [event EXCEPT ![d] = "REJECTED"] /\ Conflicting(e) = {}
    <3>1. Rows' = Rows \cup {d}
      BY <2>7 DEF Rows, TypeOK
    <3>2. denv'[d] = e /\ \A x \in Rows : x # d => denv'[x] = denv[x]
      BY <2>1 DEF Rows, TypeOK
    <3>3. RowsAreDistinct'
      BY <2>1, <2>7, <3>1, <3>2, InsertKeepsRowsDistinct
    <3> QED
      BY <2>3, <2>4, <2>5, <3>3
  <2> QED
    BY <2>2, <2>6, <2>7
<1>3. ASSUME NEW d \in Deliveries, CreateWebhookEvent(d) PROVE EvidenceInv'
  <2>1. /\ dpc[d] = "read" /\ event[d] = "ABSENT" /\ d \notin Rows
        /\ dpc' = [dpc EXCEPT ![d] = "fresh"]
        /\ event' = [event EXCEPT ![d] = "RECEIVED"]
        /\ Conflicting(denv[d]) = {}
        /\ UNCHANGED <<status, verified, audit, denv>>
    BY <1>3 DEF CreateWebhookEvent, MoveDelivery, SetEvent, EventsFollowHandlers, Rows
  <2>2. EventsFollowHandlers'
    BY <2>1 DEF EventsFollowHandlers, TypeOK, HandlersKnow
  <2>3. TrailMatchesEvents'
    <3>1. /\ \A x \in Deliveries : x # d => event'[x] = event[x]
          /\ event[d] # "VERIFIED" /\ event'[d] # "VERIFIED"
      BY <2>1 DEF TypeOK
    <3> QED
      BY <2>1, <3>1 DEF TrailMatchesEvents
  <2>4. TerminalHasTrail'
    BY <2>1 DEF TerminalHasTrail, Target
  <2>5. Rows' = Rows \cup {d}
    BY <2>1 DEF Rows, TypeOK
  <2>6. RowsAreDistinct'
    BY <2>1, <2>5, InsertKeepsRowsDistinct
  <2> QED
    BY <2>2, <2>3, <2>4, <2>6
<1>4. ASSUME NEW d \in Deliveries, HandlingEffect(d) PROVE EvidenceInv'
  BY <1>4, HandlingPreservesEvidence
<1>5. ASSUME NEW d \in Deliveries, applyTerminalTransition(d) PROVE EvidenceInv'
  <2>1. CASE HandlingEffect(d)
    BY <2>1, <1>4
  <2>2. ASSUME NEW k \in Keys, NEW t \in TransitionTypes,
               /\ k = denv[d].reference
               /\ dpc[d] = "answered"
               /\ dpc' = [dpc EXCEPT ![d] = "done"]
               /\ denv' = denv
               /\ event' = [event EXCEPT ![d] = "VERIFIED"]
               /\ status[k] \in Transitionable
               /\ verified' = [verified EXCEPT ![k] = answer[d]]
               /\ status' = [status EXCEPT ![k] = Target(answer[d])]
               /\ \A j \in Keys, s \in TransitionTypes, x \in Deliveries :
                     <<j, s, x>> \in audit' <=>
                         <<j, s, x>> \in audit \/ <<j, s, x>> = <<k, t, d>>
        PROVE EvidenceInv'
    <3>1. EventsFollowHandlers'
      BY <2>2 DEF EventsFollowHandlers, TypeOK
    <3>2. TrailMatchesEvents'
      <4>1. event[d] = "RECEIVED" /\ event'[d] = "VERIFIED"
        BY <2>2 DEF EventsFollowHandlers, TypeOK
      <4>2. \A x \in Deliveries : x # d => event'[x] = event[x]
        BY <2>2 DEF TypeOK
      <4> QED
        BY <2>2, <4>1, <4>2 DEF TrailMatchesEvents
    <3>3. TerminalHasTrail'
      <4>1. /\ status'[k] = Target(answer[d]) /\ verified'[k] = answer[d]
            /\ \A j \in Keys : j # k => status'[j] = status[j] /\ verified'[j] = verified[j]
        BY <2>2 DEF TypeOK
      <4>2. <<k, t, d>> \in audit'
        BY <2>2
      <4> QED
        BY <2>2, <4>1, <4>2 DEF TerminalHasTrail, Target
    <3>4. RowsAreDistinct'
      <4>1. Rows' = Rows
        BY <2>2 DEF Rows, TypeOK, EventsFollowHandlers
      <4> QED
        BY <2>2, <4>1 DEF RowsAreDistinct, SameEventId, SamePayload, providerEventId
    <3> QED
      BY <3>1, <3>2, <3>3, <3>4
  <2> QED
    BY <1>5, <2>1, <2>2, LastTransactionIsAtomic
<1>6. ASSUME NEW k \in Keys, ProviderSettles(k) PROVE EvidenceInv'
  <2>1. InitiationEffect
    BY <1>6 DEF ProviderSettles, InitiationEffect, KeepsTrail, requestVars, deliveryVars
  <2> QED
    BY <2>1, <1>1
<1>7. CASE UNCHANGED vars
  <2>1. InitiationEffect
    BY <1>7 DEF vars, InitiationEffect, KeepsTrail, requestVars, deliveryVars
  <2> QED
    BY <2>1, <1>1
<1>8. ASSUME NEW r \in Requests,
             RequestStep(r) \/ AbandonRequest(r) \/ \E in \in Inputs : InitiatePayment(r, in)
      PROVE  EvidenceInv'
  BY <1>8, <1>1, InitiationsSettleNothing
<1>9. ASSUME NEW d \in Deliveries, DeliveryStep(d) \/ AbandonDelivery(d)
      PROVE  EvidenceInv'
  BY <1>9, <1>3, <1>4, <1>5, HandlersSettleTheirRow DEF DeliveryStep
<1> QED
  BY <1>2, <1>6, <1>7, <1>8, <1>9 DEF Next

\* So the evidence is always consistent.
LEMMA EvidenceHolds == Spec => []EvidenceInv
BY InitEstablishesEvidence, IndInvHolds, StepPreservesEvidence, PTL DEF Spec

\* A terminal intent, the webhook row that settled it and the audit trail
\* agree, whichever handlers crash between whichever steps.
THEOREM EvidenceIsComplete == Spec => []TerminalHasEvidence
<1>1. EvidenceInv => TerminalHasEvidence
  <2> SUFFICES ASSUME EvidenceInv PROVE TerminalHasEvidence
    OBVIOUS
  <2>1. \A k \in Keys, d \in Deliveries :
           d \in Transitions(k) <=> \E t \in TransitionTypes : <<k, t, d>> \in audit
    BY DEF Transitions, TransitionTypes
  <2>2. ASSUME NEW k \in Keys, status[k] \in {"VERIFIED", "FAILED"}
        PROVE  \E d \in Transitions(k) : Target(verified[k]) = status[k]
    <3>1. /\ Target(verified[k]) = status[k]
          /\ \E d \in Deliveries, t \in TransitionTypes : <<k, t, d>> \in audit
      BY <2>2 DEF EvidenceInv, TerminalHasTrail, Terminal
    <3> QED
      BY <2>1, <3>1
  <2>3. ASSUME NEW d \in Deliveries
        PROVE  event[d] = "VERIFIED" <=>
                   \E k \in Keys : d \in Transitions(k) /\ denv[d].reference = k
    <3>1. event[d] = "VERIFIED" => \E k \in Keys, t \in TransitionTypes : <<k, t, d>> \in audit
      BY DEF EvidenceInv, TrailMatchesEvents
    <3>2. \A k \in Keys : d \in Transitions(k) => event[d] = "VERIFIED" /\ denv[d].reference = k
      BY <2>1 DEF EvidenceInv, TrailMatchesEvents
    <3> QED
      BY <2>1, <3>1, <3>2
  <2> QED
    BY <2>2, <2>3 DEF TerminalHasEvidence
<1> QED
  BY EvidenceHolds, <1>1, PTL

\* However many deliveries of one provider event run concurrently, in however
\* many encodings, one of them at most transitions an intent.
THEOREM EventsTransitionOnce == Spec => []OneTransitionPerEvent
<1>1. EvidenceInv => OneTransitionPerEvent
  <2> SUFFICES ASSUME EvidenceInv,
                      NEW d \in UNION {Transitions(k) : k \in Keys},
                      NEW x \in UNION {Transitions(k) : k \in Keys}, d # x
               PROVE  ~SameEventId(denv[d], denv[x]) /\ ~SamePayload(denv[d], denv[x])
    BY DEF OneTransitionPerEvent
  <2>1. ASSUME NEW k \in Keys, NEW y \in Transitions(k) PROVE y \in Rows
    <3>1. y \in Deliveries /\ \E t \in TransitionTypes : <<k, t, y>> \in audit
      BY <2>1 DEF Transitions, TransitionTypes
    <3>2. event[y] = "VERIFIED"
      BY <3>1 DEF EvidenceInv, TrailMatchesEvents
    <3> QED
      BY <3>1, <3>2 DEF Rows
  <2> QED
    BY <2>1 DEF EvidenceInv, RowsAreDistinct
<1> QED
  BY EvidenceHolds, <1>1, PTL

\* No step of any handler swaps one terminal status for the other, or settles
\* an intent whose initiation failed.
THEOREM TerminalsAreNotSwapped == Spec => NoTerminalSwap
<1>1. IndInv /\ [Next]_vars =>
        [\A k \in Keys :
           /\ status[k] = "VERIFIED" => status'[k] # "FAILED"
           /\ status[k] = "FAILED" => status'[k] # "VERIFIED"
           /\ status[k] = "INITIATION_FAILED" => status'[k] \notin {"VERIFIED", "FAILED"}]_vars
  <2> SUFFICES ASSUME IndInv, [Next]_vars, NEW k \in Keys
               PROVE  \/ status'[k] = status[k]
                      \/ status'[k] \notin Terminal
                      \/ status[k] \in Transitionable
    BY DEF Terminal, Transitionable
  <2>1. CASE InitiationEffect
    BY <2>1 DEF InitiationEffect
  <2>2. CASE UNCHANGED status
    BY <2>2
  <2>3. CASE \E d \in Deliveries : HandlingEffect(d)
    BY <2>3 DEF HandlingEffect
  <2>4. CASE \E d \in Deliveries : applyTerminalTransition(d)
    BY <2>4 DEF applyTerminalTransition, transitionTo, IndInv, TypeOK
  <2>5. UNCHANGED vars \/ (\E e \in Envelopes, d \in Deliveries : ReceiveWebhook(d, e))
        \/ (\E d \in Deliveries : CreateWebhookEvent(d)) \/ (\E j \in Keys : ProviderSettles(j))
          => UNCHANGED status
    BY DEF vars, ReceiveWebhook, CreateWebhookEvent, ProviderSettles
  <2> QED
    BY <2>1, <2>2, <2>3, <2>4, <2>5, InitiationsSettleNothing, HandlersSettleTheirRow
       DEF Next, DeliveryStep
<1> QED
  BY IndInvHolds, <1>1, PTL DEF Spec, NoTerminalSwap

-----------------------------------------------------------------------------
(* The purchase path end to end (TicketSystem). *)

\* A ticket or admission step reads the status of the intents and leaves it.
LEMMA TicketStepsKeepPayments ==
    ASSUME SystemNext, ~ Next
    PROVE  UNCHANGED vars
<1>1. T!TicketStep /\ UNCHANGED <<terms, verified, audit, requestVars, deliveryVars, event, charge>>
  BY DEF SystemNext
<1>2. T!TicketStep => UNCHANGED status
  BY DEF T!TicketStep, T!RejectIssuance, T!ReplayIssuance, T!IssueTicket, T!RespondWithToken,
     T!AbandonIssuance, T!MoveIssuance, T!ScanTicket, T!AdmitTicket, T!RejectReplay,
     T!ReplyScan, T!AbandonScan, T!MoveScan, T!cancelOwned, T!publishOwned, T!ReadForUpdate,
     T!updateOwned, T!Tick
<1> QED
  BY <1>1, <1>2 DEF vars

\* So the payment services keep their invariant in the whole system.
LEMMA SystemKeepsIndInv == SystemSpec => []IndInv
<1>1. SystemInit => Init
  BY DEF SystemInit
<1>2. [SystemNext]_ticketSystemVars => [Next]_vars
  BY TicketStepsKeepPayments DEF ticketSystemVars
<1> QED
  BY <1>1, <1>2, InitEstablishesIndInv, StepPreservesIndInv, PTL DEF SystemSpec

\* A payment step writes the status of at most one intent, and removes none.
LEMMA PaymentsKeepIntents ==
    ASSUME IndInv, Next
    PROVE  \/ UNCHANGED status
           \/ \E k \in Keys, st \in Statuses \ {"ABSENT"} :
                 status' = [status EXCEPT ![k] = st]
<1> USE InputFields, EnvelopeFields DEF IndInv, TypeOK, HandlersKnow, Statuses
<1>1. ASSUME NEW r \in Requests, RequestStep(r)
      PROVE  \/ UNCHANGED status
             \/ \E k \in Keys, st \in Statuses \ {"ABSENT"} :
                   status' = [status EXCEPT ![k] = st]
  <2>1. rpc[r] # "idle" => rin[r].key \in Keys
    OBVIOUS
  <2> QED
    BY <1>1, <2>1 DEF RequestStep, FindExisting, CreateIntent, RetryIntent, ReplayIntent,
       CallProvider, PersistInitiated, recordProviderSuccessPersistenceFailure,
       recordInitiationFailure, markRetryPending, markInitiated, markFailed, MoveRequest
<1>2. ASSUME NEW d \in Deliveries, applyTerminalTransition(d)
      PROVE  \/ UNCHANGED status
             \/ \E k \in Keys, st \in Statuses \ {"ABSENT"} :
                   status' = [status EXCEPT ![k] = st]
  <2>1. dpc[d] = "answered" /\ denv[d].reference \in Keys
    BY <1>2 DEF applyTerminalTransition, Finish, MoveDelivery
  <2> QED
    BY <1>2, <2>1 DEF applyTerminalTransition, transitionTo, Target
<1>3. CASE UNCHANGED status
  BY <1>3
<1> QED
  BY <1>1, <1>2, <1>3 DEF Next, InitiatePayment, AbandonRequest, ReceiveWebhook, DeliveryStep,
     AbandonDelivery, ProviderSettles, DuplicateDelivery, CreateWebhookEvent, LogReceived,
     IgnoreUnsupported, RejectEnvelope, StartVerification, VerifyByReference,
     handleVerificationError, RejectMismatch, StillPending

\* What Tickets assumes of the payment services, and so all its theorems, hold
\* in the system: no initiation, webhook or failure removes an intent.
THEOREM PaymentsAreAsTicketsAssume == SystemSpec => KeepsTicketAssumption
<1>1. SystemInit => T!Init
  BY DEF SystemInit, Init, T!Init
<1>2. ASSUME IndInv, [SystemNext]_ticketSystemVars
      PROVE  [T!Next]_(T!vars)
  <2>1. CASE T!TicketStep
    BY <2>1 DEF T!Next
  <2>2. CASE Next /\ UNCHANGED ticketOwnVars
    <3>1. UNCHANGED <<T!ticketVars, T!issueVars, T!scanVars, T!eventVars, now>>
      BY <2>2 DEF ticketOwnVars, T!ticketVars, T!issueVars, T!scanVars, T!eventVars
    <3>2. CASE UNCHANGED status
      BY <3>1, <3>2 DEF T!vars
    <3>3. CASE \E k \in Keys, st \in Statuses \ {"ABSENT"} : status' = [status EXCEPT ![k] = st]
      BY <3>1, <3>3 DEF T!Next, T!PaymentStep, T!IntentStatuses, Statuses
    <3> QED
      BY <1>2, <2>2, <3>2, <3>3, PaymentsKeepIntents
  <2>3. CASE UNCHANGED ticketSystemVars
    BY <2>3 DEF ticketSystemVars, vars, ticketOwnVars, T!vars, T!ticketVars, T!issueVars,
       T!scanVars, T!eventVars
  <2> QED
    BY <1>2, <2>1, <2>2, <2>3 DEF SystemNext
<1> QED
  BY <1>1, <1>2, SystemKeepsIndInv, PTL DEF SystemSpec, KeepsTicketAssumption, T!Spec

\* A scan's row, its input and the ticket it is about: as much as SingleEntry
\* asks of the admission service.
EntryInv ==
    /\ ticket \in [Keys -> {"ABSENT", "ISSUED", "USED"}]
    /\ spc \in [Scans -> {"idle", "tx", "reply", "done", "failed"}]
    /\ sin \in [Scans -> ScanInputs \cup {None}]
    /\ scanAudit \in [Scans -> T!Rejections \cup {"ACCEPTED", None}]
    /\ \A s \in Scans : spc[s] \in {"idle", "tx"} => scanAudit[s] = None
    /\ \A s \in Scans : spc[s] # "idle" => sin[s] # None
    /\ \A k \in Keys : ticket[k] # "USED" => T!Accepted(k) = {}

\* The decisions of a scan that admits nobody.
LEMMA ClassificationsReject ==
    ASSUME NEW k, NEW at
    PROVE  T!classifyTicketState(k, at) \in T!Rejections \cup {None}
BY DEF T!classifyTicketState, T!Rejections

\* Nor does the preflight admit anybody.
LEMMA PreflightRejects ==
    ASSUME NEW in, NEW at
    PROVE  T!Preflight(in, at) \in T!Rejections \cup {None}
BY ClassificationsReject DEF T!Preflight, T!Rejections

\* A step that admits nobody: it leaves the tickets, the inputs of the scans
\* that have one and the ACCEPTED decisions.
AdmitsNobody ==
    /\ UNCHANGED ticket
    /\ \A k \in Keys : T!Accepted(k)' = T!Accepted(k)

\* What a step of the ticket and admission services does to the tickets and
\* the accepted scans.
EntryStep ==
    \/ AdmitsNobody
    \/ \E k \in Keys :
         /\ status[k] = "VERIFIED"
         /\ ticket[k] = "ABSENT"
         /\ ticket' = [ticket EXCEPT ![k] = "ISSUED"]
         /\ \A j \in Keys : T!Accepted(j)' = T!Accepted(j)
    \/ \E k \in Keys, s \in Scans :
         /\ ticket[k] = "ISSUED"
         /\ ticket' = [ticket EXCEPT ![k] = "USED"]
         /\ T!Accepted(k)' = T!Accepted(k) \cup {s}
         /\ \A j \in Keys \ {k} : T!Accepted(j)' = T!Accepted(j)

\* Every ticket or admission step is one of these, and keeps EntryInv.
LEMMA TicketStepsEnterOnce ==
    ASSUME EntryInv, T!TicketStep
    PROVE  EntryInv' /\ EntryStep
<1> USE DEF EntryInv
<1>1. ASSUME UNCHANGED <<ticket, spc, sin, scanAudit>>
      PROVE  EntryInv' /\ EntryStep
  BY <1>1 DEF EntryStep, AdmitsNobody, T!Accepted
<1>2. ASSUME NEW i \in Issuances, NEW k \in Keys, T!IssueTicket(i, k)
      PROVE  EntryInv' /\ EntryStep
  <2>1. UNCHANGED <<spc, sin, scanAudit>>
    BY <1>2 DEF T!IssueTicket, T!MoveIssuance, T!scanVars
  <2>2. status[k] = "VERIFIED" /\ ticket[k] = "ABSENT" /\ ticket' = [ticket EXCEPT ![k] = "ISSUED"]
    BY <1>2 DEF T!IssueTicket, T!Issuable
  <2>3. \A j \in Keys : T!Accepted(j)' = T!Accepted(j)
    BY <2>1 DEF T!Accepted
  <2>4. \A j \in Keys : ticket'[j] # "USED" => T!Accepted(j)' = {}
    BY <2>2, <2>3
  <2>5. EntryInv'
    BY <2>1, <2>2, <2>4
  <2> QED
    BY <2>2, <2>3, <2>5 DEF EntryStep
<1>3. ASSUME NEW s \in Scans, NEW d \in T!Rejections \cup {None},
             spc[s] \in {"idle", "tx"}, UNCHANGED ticket,
             scanAudit' = [scanAudit EXCEPT ![s] = d],
             spc' = [spc EXCEPT ![s] = IF d = None THEN "tx" ELSE "reply"],
             \/ \E in \in ScanInputs : sin' = [sin EXCEPT ![s] = in]
             \/ UNCHANGED sin /\ spc[s] = "tx"
      PROVE  EntryInv' /\ EntryStep
  <2>1. d # "ACCEPTED" /\ None # "ACCEPTED" /\ None \notin ScanInputs /\ None \notin T!Rejections
    BY <1>3, GateAssumption DEF T!Rejections
  <2>2. scanAudit[s] = None
    BY <1>3
  <2>3. \A t \in Scans : /\ scanAudit'[t] = "ACCEPTED" <=> scanAudit[t] = "ACCEPTED"
                         /\ scanAudit[t] = "ACCEPTED" => sin'[t] = sin[t]
    BY <1>3, <2>1, <2>2
  <2>4. \A k \in Keys : T!Accepted(k)' = T!Accepted(k)
    BY <2>3 DEF T!Accepted
  <2>5. sin' \in [Scans -> ScanInputs \cup {None}] /\ sin'[s] # None
    BY <1>3, <2>1
  <2>6. \A t \in Scans : /\ spc'[t] \in {"idle", "tx"} => scanAudit'[t] = None
                         /\ spc'[t] # "idle" => sin'[t] # None
    BY <1>3, <2>1, <2>5
  <2>7. EntryInv'
    BY <1>3, <2>4, <2>5, <2>6
  <2> QED
    BY <1>3, <2>4, <2>7 DEF EntryStep, AdmitsNobody
<1>4. ASSUME NEW s \in Scans, NEW in \in ScanInputs, NEW at \in T!Times, T!ScanTicket(s, in, at)
      PROVE  EntryInv' /\ EntryStep
  <2>1. T!Preflight(in, at) \in T!Rejections \cup {None}
    BY PreflightRejects
  <2>2. /\ spc[s] = "idle"
        /\ spc' = [spc EXCEPT ![s] = IF T!Preflight(in, at) = None THEN "tx" ELSE "reply"]
        /\ sin' = [sin EXCEPT ![s] = in]
        /\ scanAudit' = [scanAudit EXCEPT ![s] = T!Preflight(in, at)]
        /\ UNCHANGED ticket
    BY <1>4 DEF T!ScanTicket, T!MoveScan, T!Decide
  <2> QED
    BY <1>3, <2>1, <2>2
<1>5. ASSUME NEW s \in Scans, T!RejectReplay(s)
      PROVE  EntryInv' /\ EntryStep
  <2> DEFINE reason == T!classifyTicketState(sin[s].ticket, scannedAt[s])
             decision == IF reason = None THEN "TOKEN_REPLAY_DETECTED" ELSE reason
  <2>1. decision \in T!Rejections /\ decision # None
    BY ClassificationsReject, GateAssumption DEF T!Rejections
  <2>2. /\ spc[s] = "tx"
        /\ spc' = [spc EXCEPT ![s] = "reply"]
        /\ UNCHANGED <<ticket, sin>>
        /\ scanAudit' = [scanAudit EXCEPT ![s] = decision]
    BY <1>5 DEF T!RejectReplay, T!MoveScan, T!Decide
  <2> HIDE DEF decision
  <2> QED
    BY <1>3, <2>1, <2>2
<1>6. ASSUME NEW s \in Scans, T!AdmitTicket(s)
      PROVE  EntryInv' /\ EntryStep
  <2>0. PICK k : k = sin[s].ticket
    OBVIOUS
  <2>1. /\ spc[s] = "tx"
        /\ spc' = [spc EXCEPT ![s] = "reply"]
        /\ UNCHANGED sin
        /\ ticket[k] = "ISSUED"
        /\ ticket' = [ticket EXCEPT ![k] = "USED"]
        /\ scanAudit' = [scanAudit EXCEPT ![s] = "ACCEPTED"]
    BY <1>6, <2>0 DEF T!AdmitTicket, T!MoveScan, T!Decide, T!markUsedIfIssuable
  <2>2. k \in Keys
    BY <2>0, <2>1, GateAssumption
  <2>3. T!Accepted(k)' = T!Accepted(k) \cup {s}
    BY <2>0, <2>1 DEF T!Accepted
  <2>4. \A j \in Keys \ {k} : T!Accepted(j)' = T!Accepted(j)
    BY <2>0, <2>1 DEF T!Accepted
  <2>5. \A j \in Keys : ticket'[j] # "USED" => T!Accepted(j)' = {}
    BY <2>1, <2>2, <2>4
  <2>6. EntryInv'
    BY <2>1, <2>2, <2>5
  <2> QED
    BY <2>1, <2>2, <2>3, <2>4, <2>6 DEF EntryStep
<1>7. ASSUME NEW s \in Scans, NEW to \in {"done", "failed"},
             spc[s] # "idle", spc' = [spc EXCEPT ![s] = to],
             UNCHANGED <<ticket, sin, scanAudit>>
      PROVE  EntryInv' /\ EntryStep
  <2>1. \A k \in Keys : T!Accepted(k)' = T!Accepted(k)
    BY <1>7 DEF T!Accepted
  <2> QED
    BY <1>7, <2>1 DEF EntryStep, AdmitsNobody
<1>8. ASSUME NEW s \in Scans, T!ReplyScan(s) \/ T!AbandonScan(s)
      PROVE  EntryInv' /\ EntryStep
  BY <1>7, <1>8 DEF T!ReplyScan, T!AbandonScan, T!MoveScan
<1>9. ASSUME \/ \E i \in Issuances : \/ \E k \in Keys : T!RejectIssuance(i, k) \/ T!ReplayIssuance(i, k)
                                     \/ T!RespondWithToken(i) \/ T!AbandonIssuance(i)
             \/ T!cancelOwned \/ T!publishOwned \/ T!ReadForUpdate \/ T!updateOwned \/ T!Tick
      PROVE  UNCHANGED <<ticket, spc, sin, scanAudit>>
  BY <1>9 DEF T!RejectIssuance, T!ReplayIssuance, T!RespondWithToken, T!AbandonIssuance,
     T!MoveIssuance, T!cancelOwned, T!publishOwned, T!ReadForUpdate, T!updateOwned, T!Tick,
     T!ticketVars, T!scanVars
<1> QED
  BY <1>1, <1>2, <1>4, <1>5, <1>6, <1>8, <1>9 DEF T!TicketStep

\* EntryInv holds in every reachable state: payment steps leave its variables.
LEMMA SystemKeepsEntryInv == SystemSpec => []EntryInv
<1>1. SystemInit => EntryInv
  <2> SUFFICES ASSUME SystemInit PROVE EntryInv
    OBVIOUS
  <2>1. None # "ACCEPTED"
    BY GateAssumption
  <2> QED
    BY <2>1 DEF SystemInit, T!TicketInit, EntryInv, T!Accepted
<1>2. EntryInv /\ [SystemNext]_ticketSystemVars => EntryInv'
  <2> SUFFICES ASSUME EntryInv, [SystemNext]_ticketSystemVars PROVE EntryInv'
    OBVIOUS
  <2>1. CASE T!TicketStep
    BY <2>1, TicketStepsEnterOnce
  <2>2. CASE UNCHANGED ticketOwnVars
    BY <2>2 DEF ticketOwnVars, EntryInv, T!Accepted
  <2> QED
    BY <2>1, <2>2 DEF SystemNext, ticketSystemVars
<1> QED
  BY <1>1, <1>2, PTL DEF SystemSpec

\* A payment step captures at most one purchase and never takes one back: an
\* opened transaction keeps its amount, a reversal too, and a row its terms.
LEMMA PaymentsOnlyCapture ==
    ASSUME IndInv, Next
    PROVE  \/ UNCHANGED FullyCaptured
           \/ \E k \in Keys : FullyCaptured' = FullyCaptured \cup {k}
<1> USE InputFields, EnvelopeFields DEF IndInv, TypeOK
<1>1. CASE UNCHANGED <<terms, charge>>
  BY <1>1 DEF FullyCaptured, Captured
<1>2. ASSUME NEW k \in Keys,
             \A j \in Keys \ {k} : terms'[j] = terms[j] /\ charge'[j] = charge[j],
             k \in FullyCaptured => k \in FullyCaptured'
      PROVE  \/ UNCHANGED FullyCaptured
             \/ \E j \in Keys : FullyCaptured' = FullyCaptured \cup {j}
  <2>1. \A j \in Keys \ {k} : j \in FullyCaptured' <=> j \in FullyCaptured
    BY <1>2 DEF FullyCaptured, Captured
  <2>2. FullyCaptured \subseteq Keys /\ FullyCaptured' \subseteq Keys
    BY DEF FullyCaptured
  <2>3. CASE k \in FullyCaptured' /\ k \notin FullyCaptured
    <3>1. FullyCaptured' = FullyCaptured \cup {k}
      BY <2>1, <2>2, <2>3
    <3> QED
      BY <3>1
  <2>4. CASE k \in FullyCaptured' <=> k \in FullyCaptured
    <3>1. \A j : j \in FullyCaptured' <=> j \in FullyCaptured
      BY <2>1, <2>2, <2>4
    <3> HIDE DEF IndInv, TypeOK
    <3>2. FullyCaptured' = FullyCaptured
      BY <3>1, Zenon
    <3> QED
      BY <3>2
  <2> QED
    BY <1>2, <2>3, <2>4
<1>3. ASSUME NEW r \in Requests, CreateIntent(r)
      PROVE  \/ UNCHANGED FullyCaptured
             \/ \E j \in Keys : FullyCaptured' = FullyCaptured \cup {j}
  <2>1. rin[r].key \in Keys
    BY <1>3 DEF CreateIntent, MoveRequest, HandlersKnow
  <2>2. CASE UNCHANGED <<terms, charge>>
    BY <1>1, <2>2
  <2>3. CASE /\ status[rin[r].key] = "ABSENT"
             /\ terms' = [terms EXCEPT ![rin[r].key] = rin[r]]
             /\ UNCHANGED charge
    <3>1. rin[r].key \notin FullyCaptured
      BY <2>1, <2>3 DEF RowsHaveTerms, FullyCaptured
    <3> QED
      BY <1>2, <2>1, <2>3, <3>1
  <2> QED
    BY <1>3, <2>2, <2>3 DEF CreateIntent
<1>4. ASSUME NEW r \in Requests, CallProvider(r)
      PROVE  \/ UNCHANGED FullyCaptured
             \/ \E j \in Keys : FullyCaptured' = FullyCaptured \cup {j}
  <2>1. rin[r].key \in Keys
    BY <1>4 DEF CallProvider, HandlersKnow
  <2>2. UNCHANGED terms /\ (UNCHANGED charge \/ OpenCharge(rin[r].key))
    BY <1>4 DEF CallProvider
  <2>3. CASE UNCHANGED charge
    BY <1>1, <2>2, <2>3
  <2>4. CASE /\ charge[rin[r].key].raw = "none"
             /\ charge' = [charge EXCEPT ![rin[r].key] =
                              [raw |-> "pending", amount |-> terms[rin[r].key].amount]]
    <3>1. rin[r].key \notin FullyCaptured
      BY <2>4 DEF FullyCaptured, Captured
    <3> QED
      BY <1>2, <2>1, <2>2, <2>4, <3>1
  <2> QED
    BY <2>2, <2>3, <2>4 DEF OpenCharge
<1>5. ASSUME NEW k \in Keys, ProviderSettles(k)
      PROVE  \/ UNCHANGED FullyCaptured
             \/ \E j \in Keys : FullyCaptured' = FullyCaptured \cup {j}
  <2>1. PICK new \in RawStatuses :
          /\ Settles(terms[k].provider, charge[k].raw, new)
          /\ \E m \in IF new = "success" THEN Amounts ELSE {charge[k].amount} :
                charge' = [charge EXCEPT ![k] = [raw |-> new, amount |-> m]]
    BY <1>5 DEF ProviderSettles
  <2>2. UNCHANGED terms
    BY <1>5 DEF ProviderSettles
  <2>3. k \in FullyCaptured => new = "reversed"
    BY <2>1 DEF FullyCaptured, Captured, Settles
  <2>4. k \in FullyCaptured => k \in FullyCaptured'
    BY <2>1, <2>2, <2>3 DEF FullyCaptured, Captured
  <2>5. \A j \in Keys \ {k} : charge'[j] = charge[j]
    BY <2>1
  <2> QED
    BY <1>2, <2>2, <2>4, <2>5
<1>6. ASSUME NEW r \in Requests, RequestStep(r), ~ CreateIntent(r), ~ CallProvider(r)
      PROVE  UNCHANGED <<terms, charge>>
  BY <1>6 DEF RequestStep, FindExisting, RetryIntent, ReplayIntent, PersistInitiated,
     recordProviderSuccessPersistenceFailure, recordInitiationFailure, markRetryPending,
     markInitiated, markFailed
<1>7. ASSUME NEW d \in Deliveries, DeliveryStep(d)
      PROVE  UNCHANGED <<terms, charge>>
  BY <1>7 DEF DeliveryStep, DuplicateDelivery, CreateWebhookEvent, LogReceived,
     IgnoreUnsupported, RejectEnvelope, StartVerification, VerifyByReference,
     handleVerificationError, RejectMismatch, StillPending, applyTerminalTransition, transitionTo
<1> QED
  BY <1>1, <1>3, <1>4, <1>5, <1>6, <1>7 DEF Next, InitiatePayment, AbandonRequest,
     ReceiveWebhook, AbandonDelivery

\* The one scan that was accepted is the one that spent the ticket.
LEMMA SpenderOfOne == Spender({}) = None /\ \A s : Spender({s}) = s
BY DEF Spender

\* The services together implement SingleEntry, for every number of buyers,
\* purchases, handlers, gates and deliveries: a pass exists only for funds that
\* were captured in full, and lets one scan through, once.
THEOREM OnePaidEntry == SystemSpec => ImplementsSingleEntry
<1>1. SystemInit => Entry!Init
  <2> SUFFICES ASSUME SystemInit PROVE Entry!Init
    OBVIOUS
  <2>1. FullyCaptured = {}
    BY DEF SystemInit, Init, FullyCaptured, Captured
  <2>2. \A k \in Keys : ticket[k] = "ABSENT"
    BY DEF SystemInit, T!TicketInit
  <2>3. None # "ACCEPTED"
    BY GateAssumption
  <2>4. \A k \in Keys : T!Accepted(k) = {}
    BY <2>3 DEF SystemInit, T!TicketInit, T!Accepted
  <2> QED
    BY <2>1, <2>2, <2>4, SpenderOfOne DEF Entry!Init
<1>2. ASSUME IndInv, EntryInv, [SystemNext]_ticketSystemVars
      PROVE  [Entry!Next]_(Entry!vars)
  <2>1. CASE T!TicketStep /\ UNCHANGED <<terms, charge>>
    <3>1. UNCHANGED FullyCaptured
      BY <2>1 DEF FullyCaptured, Captured
    <3>2. CASE AdmitsNobody
      BY <3>1, <3>2 DEF AdmitsNobody, Entry!vars
    <3>3. ASSUME NEW k \in Keys,
                 status[k] = "VERIFIED",
                 ticket[k] = "ABSENT",
                 ticket' = [ticket EXCEPT ![k] = "ISSUED"],
                 \A j \in Keys : T!Accepted(j)' = T!Accepted(j)
          PROVE  Entry!Issue(k)
      <4>1. k \in FullyCaptured
        BY <1>2, <3>3 DEF IndInv, VerifiedIsCaptured, FullyCaptured
      <4> QED
        BY <1>2, <3>1, <3>3, <4>1 DEF Entry!Issue, EntryInv
    <3>4. ASSUME NEW k \in Keys, NEW s \in Scans,
                 ticket[k] = "ISSUED",
                 ticket' = [ticket EXCEPT ![k] = "USED"],
                 T!Accepted(k)' = T!Accepted(k) \cup {s},
                 \A j \in Keys \ {k} : T!Accepted(j)' = T!Accepted(j)
          PROVE  Entry!Enter(k, s)
      <4>1. T!Accepted(k)' = {s}
        BY <1>2, <3>4 DEF EntryInv
      <4>2. Spender(T!Accepted(k)') = s
        BY <4>1, SpenderOfOne
      <4> QED
        BY <1>2, <3>1, <3>4, <4>1, <4>2 DEF Entry!Enter, EntryInv
    <3> QED
      BY <1>2, <2>1, <3>2, <3>3, <3>4, TicketStepsEnterOnce DEF EntryStep, Entry!Next
  <2>2. CASE Next /\ UNCHANGED ticketOwnVars
    <3>1. UNCHANGED ticket /\ \A k \in Keys : T!Accepted(k)' = T!Accepted(k)
      BY <2>2 DEF ticketOwnVars, T!Accepted
    <3>2. CASE UNCHANGED FullyCaptured
      BY <3>1, <3>2 DEF Entry!vars
    <3>3. ASSUME NEW k \in Keys, FullyCaptured' = FullyCaptured \cup {k}
          PROVE  Entry!Pay(k)
      BY <3>1, <3>3 DEF Entry!Pay
    <3> QED
      BY <1>2, <2>2, <3>2, <3>3, PaymentsOnlyCapture DEF Entry!Next
  <2>3. CASE UNCHANGED ticketSystemVars
    BY <2>3 DEF ticketSystemVars, vars, ticketOwnVars, Entry!vars, FullyCaptured, Captured,
       T!Accepted
  <2> QED
    BY <1>2, <2>1, <2>2, <2>3 DEF SystemNext
<1> QED
  BY <1>1, <1>2, SystemKeepsIndInv, SystemKeepsEntryInv, PTL
     DEF SystemSpec, ImplementsSingleEntry, Entry!Spec
=============================================================================
