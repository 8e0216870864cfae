------------------------------- MODULE Tickets -------------------------------
(***************************************************************************)
(* Ticket issuance from a verified payment intent (TicketIssuanceService)  *)
(* and the admission scan (AdmissionsService), for the intents of one      *)
(* event whose organizer may cancel or reschedule it (EventsService).      *)
(*                                                                         *)
(* tickets has a unique index on (payment intent, owner, event), and owner *)
(* and event are columns of the intent: a ticket is indexed by its intent. *)
(* An admission token is random and stored as a hash only; it is modelled  *)
(* by the issuance call that generated it.                                 *)
(***************************************************************************)
EXTENDS Naturals

CONSTANTS
    Intents,    \* payment intents of the event
    Issuances,  \* calls of issueTicketFromVerifiedPayment
    Scans,      \* calls of scanTicket
    ScanInputs, \* what may be presented at a gate, and by whom
    MaxTime,    \* bound of the clock
    None        \* NULL; also a token that was never generated

ASSUME TimeAssumption == MaxTime \in Nat
ASSUME ScanInputAssumption ==
    ScanInputs \subseteq [ticket: Intents, token: Issuances \cup {None},
                          authorised: BOOLEAN, sameEvent: BOOLEAN]

Times == 0 .. MaxTime

IntentStatuses == {"ABSENT", "INITIATION_PENDING", "INITIATED",
                   "INITIATION_FAILED", "VERIFIED", "FAILED"}

Rejections == {"TICKET_NOT_FOUND", "INVALID_TOKEN", "STAFF_NOT_AUTHORIZED",
               "EVENT_MISMATCH", "TICKET_ALREADY_USED", "EVENT_NOT_ACTIVE",
               "TICKET_EXPIRED", "TOKEN_REPLAY_DETECTED"}

ASSUME NoneAssumption ==
    None \notin Issuances \cup Scans \cup ScanInputs \cup Rejections \cup {"ACCEPTED"}

VARIABLES
    intentStatus,  \* payment_intents.status, owned by the payment services
    ticket,        \* tickets.status; the VOIDED, REFUNDED ... that no code sets are left out
    token,         \* the token whose hash the ticket stores
    expiresAt,     \* the ticket's expiry, copied from the event
    issueAudit,    \* ticket_issuance_audit_logs: <<intent, event, issuance>>
    ipc,           \* an issuance's progress
    held,          \* tokens that reached the caller
    spc, sin,      \* a scan's progress and input
    scannedAt,     \* when the scan began
    scanAudit,     \* the decision in admission_scan_audits, None if there is none
    eventStatus, endsAt,
    upc,           \* an updateOwned call's progress: has it read the event?
    now

ticketVars == <<ticket, token, expiresAt>>
issueVars == <<issueAudit, ipc, held>>
scanVars == <<spc, sin, scannedAt, scanAudit>>
eventVars == <<eventStatus, endsAt, upc>>
vars == <<intentStatus, ticketVars, issueVars, scanVars, eventVars, now>>

TypeOK ==
    /\ intentStatus \in [Intents -> IntentStatuses]
    /\ ticket \in [Intents -> {"ABSENT", "ISSUED", "USED"}]
    /\ token \in [Intents -> Issuances \cup {None}]
    /\ expiresAt \in [Intents -> Times]
    /\ issueAudit \subseteq Intents \X {"rejected_payment_not_verified", "requested",
                                        "issued", "idempotent_replay"} \X Issuances
    /\ ipc \in [Issuances -> {"idle", "respond", "done", "failed"}]
    /\ held \subseteq Issuances
    /\ spc \in [Scans -> {"idle", "tx", "reply", "done", "failed"}]
    /\ sin \in [Scans -> ScanInputs \cup {None}]
    /\ scannedAt \in [Scans -> Times]
    /\ scanAudit \in [Scans -> Rejections \cup {"ACCEPTED", None}]
    /\ eventStatus \in {"PUBLISHED", "CANCELLED"}
    /\ endsAt \in Times
    /\ upc \in {"idle", "write"}
    /\ now \in Times

\* Everything but the intents, which belong to the payment services.
TicketInit ==
    /\ ticket = [k \in Intents |-> "ABSENT"]
    /\ token = [k \in Intents |-> None]
    /\ expiresAt = [k \in Intents |-> 0]
    /\ issueAudit = {}
    /\ ipc = [i \in Issuances |-> "idle"]
    /\ held = {}
    /\ spc = [s \in Scans |-> "idle"]
    /\ sin = [s \in Scans |-> None]
    /\ scannedAt = [s \in Scans |-> 0]
    /\ scanAudit = [s \in Scans |-> None]
    /\ eventStatus = "PUBLISHED"
    /\ endsAt \in Times
    /\ upc = "idle"
    /\ now = 0

Init == intentStatus = [k \in Intents |-> "ABSENT"] /\ TicketInit

-----------------------------------------------------------------------------
(* TicketIssuanceService: one SERIALIZABLE transaction, then the response. *)

MoveIssuance(i, from, to) ==
    /\ ipc[i] = from
    /\ ipc' = [ipc EXCEPT ![i] = to]
    /\ UNCHANGED <<intentStatus, scanVars, eventVars, now>>

LogIssue(i, k, events) == issueAudit' = issueAudit \cup ({k} \X events \X {i})

MutantIssuable(k) == intentStatus[k] \in {"VERIFIED", "INITIATED"}

Issuable(k) == intentStatus[k] = "VERIFIED"

\* No such intent, or one that is not VERIFIED: at most an audit row.
RejectIssuance(i, k) ==
    /\ ~Issuable(k)
    /\ MoveIssuance(i, "idle", "failed")
    /\ IF intentStatus[k] = "ABSENT" THEN UNCHANGED issueAudit
       ELSE LogIssue(i, k, {"rejected_payment_not_verified"})
    /\ UNCHANGED <<ticketVars, held>>

\* The ticket exists: it is returned, without its token.
ReplayIssuance(i, k) ==
    /\ Issuable(k)
    /\ ticket[k] # "ABSENT"
    /\ MoveIssuance(i, "idle", "done")
    /\ LogIssue(i, k, {"requested", "idempotent_replay"})
    /\ UNCHANGED <<ticketVars, held>>

MutantIssueTicket(i, k) ==
    /\ Issuable(k)
    /\ MoveIssuance(i, "idle", "respond")
    /\ ticket' = [ticket EXCEPT ![k] = "ISSUED"]
    /\ token' = [token EXCEPT ![k] = i]
    /\ expiresAt' = [expiresAt EXCEPT ![k] = endsAt]
    /\ LogIssue(i, k, {"requested", "issued"})
    /\ UNCHANGED held

\* Intents carry buyer, event and organizer from their creation, and none of
\* these changes, so the snapshot checks of the code always pass.
IssueTicket(i, k) ==
    /\ Issuable(k)
    /\ ticket[k] = "ABSENT"
    /\ MoveIssuance(i, "idle", "respond")
    /\ ticket' = [ticket EXCEPT ![k] = "ISSUED"]
    /\ token' = [token EXCEPT ![k] = i]
    /\ expiresAt' = [expiresAt EXCEPT ![k] = endsAt]
    /\ LogIssue(i, k, {"requested", "issued"})
    /\ UNCHANGED held

\* The raw token leaves the process once, in the response.
RespondWithToken(i) ==
    /\ MoveIssuance(i, "respond", "done")
    /\ held' = held \cup {i}
    /\ UNCHANGED <<ticketVars, issueAudit>>

\* A rollback (a concurrent issuance, a failed audit insert) or a crash before
\* the response.  A unique violation aborts the transaction in PostgreSQL, so
\* the lookup that follows it in the code fails and the call ends here too.
AbandonIssuance(i) ==
    /\ ipc[i] \in {"idle", "respond"}
    /\ MoveIssuance(i, ipc[i], "failed")
    /\ UNCHANGED <<ticketVars, issueAudit, held>>

-----------------------------------------------------------------------------
(* AdmissionsService.scanTicket *)

MoveScan(s, from, to) ==
    /\ spc[s] = from
    /\ spc' = [spc EXCEPT ![s] = to]
    /\ UNCHANGED <<intentStatus, token, expiresAt, issueVars, eventVars, now>>

Decide(s, decision) == scanAudit' = [scanAudit EXCEPT ![s] = decision]

classifyTicketState(k, at) ==
    IF ticket[k] = "USED" THEN "TICKET_ALREADY_USED"
    ELSE IF eventStatus # "PUBLISHED" THEN "EVENT_NOT_ACTIVE"
    ELSE IF at > expiresAt[k] THEN "TICKET_EXPIRED"
    ELSE IF at > endsAt THEN "EVENT_NOT_ACTIVE"
    ELSE None

MutantPreflight(in, at) ==
    IF ticket[in.ticket] = "ABSENT" THEN "TICKET_NOT_FOUND"
    ELSE IF token[in.ticket] # in.token THEN "INVALID_TOKEN"
    ELSE IF ~in.sameEvent THEN "EVENT_MISMATCH"
    ELSE classifyTicketState(in.ticket, at)

\* The checks on the ticket as it was read before the transaction.
Preflight(in, at) ==
    IF ticket[in.ticket] = "ABSENT" THEN "TICKET_NOT_FOUND"
    ELSE IF token[in.ticket] # in.token THEN "INVALID_TOKEN"
    ELSE IF ~in.authorised THEN "STAFF_NOT_AUTHORIZED"
    ELSE IF ~in.sameEvent THEN "EVENT_MISMATCH"
    ELSE classifyTicketState(in.ticket, at)

\* Read and classify; a rejection is audited at once, outside a transaction.
\* The call took its timestamp before it read the ticket, perhaps long before.
\* A token can be presented once somebody received it.
ScanTicket(s, in, at) ==
    LET reason == Preflight(in, at)
    IN /\ at <= now
       /\ in.token # None => in.token \in held
       /\ MoveScan(s, "idle", IF reason = None THEN "tx" ELSE "reply")
       /\ sin' = [sin EXCEPT ![s] = in]
       /\ scannedAt' = [scannedAt EXCEPT ![s] = at]
       /\ Decide(s, reason)
       /\ UNCHANGED ticket

MutantMarkUsedIfIssuable(s) == token[sin[s].ticket] = sin[s].token

\* The WHERE clause of markUsedIfIssuable.
markUsedIfIssuable(s) ==
    /\ ticket[sin[s].ticket] = "ISSUED"
    /\ token[sin[s].ticket] = sin[s].token

\* The SERIALIZABLE transaction: mark the ticket used and audit ACCEPTED, or
\* classify the reloaded ticket and audit the rejection.
AdmitTicket(s) ==
    /\ MoveScan(s, "tx", "reply")
    /\ markUsedIfIssuable(s)
    /\ ticket' = [ticket EXCEPT ![sin[s].ticket] = "USED"]
    /\ Decide(s, "ACCEPTED")
    /\ UNCHANGED <<sin, scannedAt>>

RejectReplay(s) ==
    LET reason == classifyTicketState(sin[s].ticket, scannedAt[s])
    IN /\ MoveScan(s, "tx", "reply")
       /\ ~markUsedIfIssuable(s)
       /\ Decide(s, IF reason = None THEN "TOKEN_REPLAY_DETECTED" ELSE reason)
       /\ UNCHANGED <<ticket, sin, scannedAt>>

\* The decision reaches the gate.
ReplyScan(s) ==
    /\ MoveScan(s, "reply", "done")
    /\ UNCHANGED <<ticket, sin, scannedAt, scanAudit>>

\* A rollback (a concurrent scan, a failed audit insert), or a crash.
AbandonScan(s) ==
    /\ spc[s] \in {"tx", "reply"}
    /\ MoveScan(s, spc[s], "failed")
    /\ UNCHANGED <<ticket, sin, scannedAt, scanAudit>>

-----------------------------------------------------------------------------
(* EventsService, and the clock *)

\* A cancellation reads PUBLISHED and then writes.  That its write may come late
\* adds nothing: over CANCELLED it changes nothing, over PUBLISHED it is this step.
cancelOwned ==
    /\ eventStatus = "PUBLISHED"
    /\ eventStatus' = "CANCELLED"
    /\ UNCHANGED <<intentStatus, ticketVars, issueVars, scanVars, endsAt, upc, now>>

\* The late write of a publication that read the event as DRAFT: by id, so it
\* reopens an event that was published by another call and cancelled since.
publishOwned ==
    /\ eventStatus = "CANCELLED"
    /\ eventStatus' = "PUBLISHED"
    /\ UNCHANGED <<intentStatus, ticketVars, issueVars, scanVars, endsAt, upc, now>>

\* updateOwned reads the event and checks that it is not cancelled ...
ReadForUpdate ==
    /\ upc = "idle"
    /\ eventStatus # "CANCELLED"
    /\ upc' = "write"
    /\ UNCHANGED <<intentStatus, ticketVars, issueVars, scanVars, eventStatus, endsAt, now>>

\* ... and then writes it, perhaps after a cancellation.  The expiry of the
\* tickets already issued stays as it was.
updateOwned ==
    /\ upc = "write"
    /\ upc' = "idle"
    /\ endsAt' \in Times
    /\ UNCHANGED <<intentStatus, ticketVars, issueVars, scanVars, eventStatus, now>>

Tick ==
    /\ now < MaxTime
    /\ now' = now + 1
    /\ UNCHANGED <<intentStatus, ticketVars, issueVars, scanVars, eventVars>>

-----------------------------------------------------------------------------
\* What the payment services may do to an intent meanwhile: anything but
\* delete it, for the initiation writes its status without looking at it.
PaymentStep(k) ==
    /\ \E st \in IntentStatuses \ {"ABSENT"} :
          intentStatus' = [intentStatus EXCEPT ![k] = st]
    /\ UNCHANGED <<ticketVars, issueVars, scanVars, eventVars, now>>

TicketStep ==
    \/ \E i \in Issuances : \/ \E k \in Intents : \/ RejectIssuance(i, k)
                                                  \/ ReplayIssuance(i, k)
                                                  \/ IssueTicket(i, k)
                            \/ RespondWithToken(i)
                            \/ AbandonIssuance(i)
    \/ \E s \in Scans : \/ \E in \in ScanInputs, at \in Times : ScanTicket(s, in, at)
                        \/ AdmitTicket(s)
                        \/ RejectReplay(s)
                        \/ ReplyScan(s)
                        \/ AbandonScan(s)
    \/ cancelOwned \/ publishOwned \/ ReadForUpdate \/ updateOwned \/ Tick

Next == TicketStep \/ \E k \in Intents : PaymentStep(k)

Spec == Init /\ [][Next]_vars

-----------------------------------------------------------------------------
(* Properties *)

Accepted(k) == {s \in Scans : scanAudit[s] = "ACCEPTED" /\ sin[s].ticket = k}

\* However many gates scan a ticket at once, at most one scan is ACCEPTED, and
\* the ticket is USED exactly when one was: no admission without its audit row
\* and no audit row without the ticket being spent, whatever crashes
\* (scanTicket's transaction).
AdmittedOnce ==
    \A k \in Intents :
        /\ \A s, t \in Accepted(k) : s = t
        /\ ticket[k] = "USED" <=> Accepted(k) # {}

\* An accepted scan presented the token of that very ticket, by staff of its
\* event, and began before the ticket's expiry, although the transaction that
\* accepts only looks at the status and the token again.
AcceptedHadTheRight ==
    \A k \in Intents : \A s \in Accepted(k) :
        /\ sin[s].token = token[k]
        /\ token[k] # None
        /\ sin[s].authorised /\ sin[s].sameEvent
        /\ scannedAt[s] <= expiresAt[k]

\* Issuing again, concurrently or after a lost response, neither replaces the
\* token of a ticket nor revives a used one.
TicketIsNeverReissued ==
    [][\A k \in Intents : ticket[k] # "ABSENT" =>
          /\ token'[k] = token[k]
          /\ expiresAt'[k] = expiresAt[k]
          /\ ticket[k] = "USED" => ticket'[k] = "USED"]_vars
=============================================================================
