---------------------------- MODULE TicketsProofs ----------------------------
(***************************************************************************)
(* For any number of intents, issuances and gates: the types of Tickets,   *)
(* that a ticket admits once, and that issuance never touches it again.    *)
(***************************************************************************)
EXTENDS Tickets, TLAPS

\* What a scan has established when it enters its transaction, and how far an
\* undecided scan can be.
ScansKnow ==
    /\ \A s \in Scans : spc[s] = "idle" => scanAudit[s] = None
    /\ \A s \in Scans : spc[s] # "idle" => sin[s] # None
    /\ \A s \in Scans : spc[s] = "tx" =>
          /\ scanAudit[s] = None
          /\ ticket[sin[s].ticket] # "ABSENT"
          /\ sin[s].token = token[sin[s].ticket]
          /\ sin[s].authorised /\ sin[s].sameEvent
          /\ scannedAt[s] <= expiresAt[sin[s].ticket]

TicketsHaveTokens == \A k \in Intents : ticket[k] = "ABSENT" <=> token[k] = None

IndInv == TypeOK /\ ScansKnow /\ TicketsHaveTokens /\ AdmittedOnce /\ AcceptedHadTheRight

\* The fields of what is presented at a gate.
LEMMA ScanInputFields ==
    \A in \in ScanInputs : in.ticket \in Intents /\ in # None
BY ScanInputAssumption, NoneAssumption

\* IndInv holds initially, before any ticket or scan exists.
LEMMA InitEstablishesIndInv == Init => IndInv
<1> SUFFICES ASSUME Init PROVE IndInv
  OBVIOUS
<1> USE DEF Init, TicketInit
<1>1. TypeOK
  BY TimeAssumption, NoneAssumption DEF TypeOK, IntentStatuses, Times, Rejections
<1>2. ScansKnow /\ TicketsHaveTokens
  BY DEF ScansKnow, TicketsHaveTokens
<1>3. \A k \in Intents : Accepted(k) = {}
  BY NoneAssumption DEF Accepted
<1>4. AdmittedOnce /\ AcceptedHadTheRight
  BY <1>3 DEF AdmittedOnce, AcceptedHadTheRight
<1> QED
  BY <1>1, <1>2, <1>4 DEF IndInv

\* A step that leaves tickets and scans alone keeps everything but the types.
LEMMA BystandersKeepTickets ==
    ASSUME IndInv, UNCHANGED <<ticketVars, scanVars>>
    PROVE  (ScansKnow /\ TicketsHaveTokens /\ AdmittedOnce /\ AcceptedHadTheRight)'
BY DEF IndInv, ScansKnow, TicketsHaveTokens, AdmittedOnce, AcceptedHadTheRight, Accepted,
    ticketVars, scanVars

\* Every action preserves IndInv.
LEMMA StepPreservesIndInv == IndInv /\ [Next]_vars => IndInv'
<1> SUFFICES ASSUME IndInv, [Next]_vars PROVE IndInv'
  OBVIOUS
<1> USE ScanInputFields, NoneAssumption, TimeAssumption
    DEF IndInv, ticketVars, issueVars, scanVars, eventVars
<1>1. ASSUME NEW i \in Issuances, NEW k \in Intents, RejectIssuance(i, k) PROVE IndInv'
  <2>1. TypeOK'
    BY <1>1 DEF RejectIssuance, MoveIssuance, LogIssue, TypeOK, IntentStatuses,
        Times
  <2>2. UNCHANGED <<ticketVars, scanVars>>
    BY <1>1 DEF RejectIssuance, MoveIssuance
  <2> QED
    BY <2>1, <2>2, BystandersKeepTickets
<1>2. ASSUME NEW i \in Issuances, NEW k \in Intents, ReplayIssuance(i, k) PROVE IndInv'
  <2>1. TypeOK'
    BY <1>2 DEF ReplayIssuance, MoveIssuance, LogIssue, TypeOK, IntentStatuses,
        Times
  <2>2. UNCHANGED <<ticketVars, scanVars>>
    BY <1>2 DEF ReplayIssuance, MoveIssuance
  <2> QED
    BY <2>1, <2>2, BystandersKeepTickets
<1>3. ASSUME NEW i \in Issuances, NEW k \in Intents, IssueTicket(i, k) PROVE IndInv'
  <2>1. TypeOK'
    BY <1>3 DEF IssueTicket, MoveIssuance, LogIssue, TypeOK, ScansKnow,
        IntentStatuses, Times, Rejections
  <2>2. ScansKnow'
    BY <1>3 DEF IssueTicket, MoveIssuance, LogIssue, TypeOK, ScansKnow,
        TicketsHaveTokens
  <2>3. TicketsHaveTokens'
    BY <1>3 DEF IssueTicket, MoveIssuance, LogIssue, TypeOK, ScansKnow,
        TicketsHaveTokens
  <2>4. AdmittedOnce'
    BY <1>3 DEF IssueTicket, MoveIssuance, LogIssue, TypeOK, ScansKnow,
        AdmittedOnce, Accepted, Rejections
  <2>5. AcceptedHadTheRight'
    BY <1>3 DEF IssueTicket, MoveIssuance, LogIssue, TypeOK, ScansKnow,
        TicketsHaveTokens, AdmittedOnce, AcceptedHadTheRight, Accepted, Rejections
  <2> QED
    BY <2>1, <2>2, <2>3, <2>4, <2>5
<1>4. ASSUME NEW i \in Issuances, RespondWithToken(i) PROVE IndInv'
  <2>1. TypeOK'
    BY <1>4 DEF RespondWithToken, MoveIssuance, TypeOK, IntentStatuses, Times
  <2>2. UNCHANGED <<ticketVars, scanVars>>
    BY <1>4 DEF RespondWithToken, MoveIssuance
  <2> QED
    BY <2>1, <2>2, BystandersKeepTickets
<1>5. ASSUME NEW i \in Issuances, AbandonIssuance(i) PROVE IndInv'
  <2>1. TypeOK'
    BY <1>5 DEF AbandonIssuance, MoveIssuance, TypeOK, IntentStatuses, Times
  <2>2. UNCHANGED <<ticketVars, scanVars>>
    BY <1>5 DEF AbandonIssuance, MoveIssuance
  <2> QED
    BY <2>1, <2>2, BystandersKeepTickets
<1>6. ASSUME NEW s \in Scans, NEW in \in ScanInputs, NEW at \in Times,
             ScanTicket(s, in, at)
      PROVE  IndInv'
  <2>1. TypeOK'
    BY <1>6 DEF ScanTicket, MoveScan, Decide, Preflight, classifyTicketState,
        TypeOK, ScansKnow, IntentStatuses, Times, Rejections
  <2>2. ScansKnow'
    <3>1. Preflight(in, at) = None =>
             /\ ticket[in.ticket] # "ABSENT"
             /\ in.token = token[in.ticket]
             /\ in.authorised /\ in.sameEvent
             /\ at <= expiresAt[in.ticket]
      BY DEF Preflight, classifyTicketState, TypeOK, Times, Rejections
    <3>2. /\ spc[s] = "idle"
          /\ spc' = [spc EXCEPT ![s] = IF Preflight(in, at) = None THEN "tx" ELSE "reply"]
          /\ sin' = [sin EXCEPT ![s] = in]
          /\ scannedAt' = [scannedAt EXCEPT ![s] = at]
          /\ scanAudit' = [scanAudit EXCEPT ![s] = Preflight(in, at)]
          /\ UNCHANGED <<ticket, token, expiresAt>>
      BY <1>6 DEF ScanTicket, MoveScan, Decide
    <3> QED
      BY <3>1, <3>2 DEF TypeOK, ScansKnow
  <2>3. TicketsHaveTokens'
    BY <1>6 DEF ScanTicket, MoveScan, Decide, Preflight, classifyTicketState,
        TypeOK, ScansKnow, TicketsHaveTokens
  <2>4. AdmittedOnce'
    BY <1>6 DEF ScanTicket, MoveScan, Decide, Preflight, classifyTicketState,
        TypeOK, ScansKnow, AdmittedOnce, Accepted, Rejections
  <2>5. AcceptedHadTheRight'
    BY <1>6 DEF ScanTicket, MoveScan, Decide, Preflight, classifyTicketState,
        TypeOK, ScansKnow, TicketsHaveTokens, AdmittedOnce, AcceptedHadTheRight,
        Accepted, Rejections
  <2> QED
    BY <2>1, <2>2, <2>3, <2>4, <2>5
<1>7. ASSUME NEW s \in Scans, AdmitTicket(s) PROVE IndInv'
  <2>1. TypeOK'
    BY <1>7 DEF AdmitTicket, MoveScan, Decide, markUsedIfIssuable, TypeOK,
        ScansKnow, IntentStatuses, Times, Rejections
  <2>2. ScansKnow'
    BY <1>7 DEF AdmitTicket, MoveScan, Decide, markUsedIfIssuable, TypeOK,
        ScansKnow, TicketsHaveTokens
  <2>3. TicketsHaveTokens'
    BY <1>7 DEF AdmitTicket, MoveScan, Decide, markUsedIfIssuable, TypeOK,
        ScansKnow, TicketsHaveTokens
  <2>4. AdmittedOnce'
    BY <1>7 DEF AdmitTicket, MoveScan, Decide, markUsedIfIssuable, TypeOK,
        ScansKnow, AdmittedOnce, Accepted, Rejections
  <2>5. AcceptedHadTheRight'
    BY <1>7 DEF AdmitTicket, MoveScan, Decide, markUsedIfIssuable, TypeOK,
        ScansKnow, TicketsHaveTokens, AdmittedOnce, AcceptedHadTheRight, Accepted,
        Rejections
  <2> QED
    BY <2>1, <2>2, <2>3, <2>4, <2>5
<1>8. ASSUME NEW s \in Scans, RejectReplay(s) PROVE IndInv'
  <2>1. TypeOK'
    BY <1>8 DEF RejectReplay, MoveScan, Decide, classifyTicketState, TypeOK,
        ScansKnow, IntentStatuses, Times, Rejections
  <2>2. ScansKnow'
    BY <1>8 DEF RejectReplay, MoveScan, Decide, classifyTicketState, TypeOK,
        ScansKnow, TicketsHaveTokens
  <2>3. TicketsHaveTokens'
    BY <1>8 DEF RejectReplay, MoveScan, Decide, classifyTicketState, TypeOK,
        ScansKnow, TicketsHaveTokens
  <2>4. AdmittedOnce'
    BY <1>8 DEF RejectReplay, MoveScan, Decide, classifyTicketState, TypeOK,
        ScansKnow, AdmittedOnce, Accepted, Rejections
  <2>5. AcceptedHadTheRight'
    BY <1>8 DEF RejectReplay, MoveScan, Decide, classifyTicketState, TypeOK,
        ScansKnow, TicketsHaveTokens, AdmittedOnce, AcceptedHadTheRight, Accepted,
        Rejections
  <2> QED
    BY <2>1, <2>2, <2>3, <2>4, <2>5
<1>9. ASSUME NEW s \in Scans, ReplyScan(s) PROVE IndInv'
  <2>1. TypeOK'
    BY <1>9 DEF ReplyScan, MoveScan, TypeOK, ScansKnow, IntentStatuses, Times,
        Rejections
  <2>2. ScansKnow'
    BY <1>9 DEF ReplyScan, MoveScan, TypeOK, ScansKnow, TicketsHaveTokens
  <2>3. TicketsHaveTokens'
    BY <1>9 DEF ReplyScan, MoveScan, TypeOK, ScansKnow, TicketsHaveTokens
  <2>4. AdmittedOnce'
    BY <1>9 DEF ReplyScan, MoveScan, TypeOK, ScansKnow, AdmittedOnce, Accepted,
        Rejections
  <2>5. AcceptedHadTheRight'
    BY <1>9 DEF ReplyScan, MoveScan, TypeOK, ScansKnow, TicketsHaveTokens,
        AdmittedOnce, AcceptedHadTheRight, Accepted, Rejections
  <2> QED
    BY <2>1, <2>2, <2>3, <2>4, <2>5
<1>10. ASSUME NEW s \in Scans, AbandonScan(s) PROVE IndInv'
  <2>1. TypeOK'
    BY <1>10 DEF AbandonScan, MoveScan, TypeOK, ScansKnow, IntentStatuses, Times,
        Rejections
  <2>2. ScansKnow'
    BY <1>10 DEF AbandonScan, MoveScan, TypeOK, ScansKnow, TicketsHaveTokens
  <2>3. TicketsHaveTokens'
    BY <1>10 DEF AbandonScan, MoveScan, TypeOK, ScansKnow, TicketsHaveTokens
  <2>4. AdmittedOnce'
    BY <1>10 DEF AbandonScan, MoveScan, TypeOK, ScansKnow, AdmittedOnce, Accepted,
        Rejections
  <2>5. AcceptedHadTheRight'
    BY <1>10 DEF AbandonScan, MoveScan, TypeOK, ScansKnow, TicketsHaveTokens,
        AdmittedOnce, AcceptedHadTheRight, Accepted, Rejections
  <2> QED
    BY <2>1, <2>2, <2>3, <2>4, <2>5
<1>11. ASSUME cancelOwned \/ publishOwned PROVE IndInv'
  <2>1. TypeOK'
    BY <1>11 DEF cancelOwned, publishOwned, TypeOK, IntentStatuses, Times
  <2>2. UNCHANGED <<ticketVars, scanVars>>
    BY <1>11 DEF cancelOwned, publishOwned
  <2> QED
    BY <2>1, <2>2, BystandersKeepTickets
<1>12. ASSUME ReadForUpdate PROVE IndInv'
  <2>1. TypeOK'
    BY <1>12 DEF ReadForUpdate, TypeOK, IntentStatuses, Times
  <2>2. UNCHANGED <<ticketVars, scanVars>>
    BY <1>12 DEF ReadForUpdate
  <2> QED
    BY <2>1, <2>2, BystandersKeepTickets
<1>13. ASSUME updateOwned PROVE IndInv'
  <2>1. TypeOK'
    BY <1>13 DEF updateOwned, TypeOK, IntentStatuses, Times
  <2>2. UNCHANGED <<ticketVars, scanVars>>
    BY <1>13 DEF updateOwned
  <2> QED
    BY <2>1, <2>2, BystandersKeepTickets
<1>14. ASSUME Tick PROVE IndInv'
  <2>1. TypeOK'
    BY <1>14 DEF Tick, TypeOK, IntentStatuses, Times
  <2>2. UNCHANGED <<ticketVars, scanVars>>
    BY <1>14 DEF Tick
  <2> QED
    BY <2>1, <2>2, BystandersKeepTickets
<1>15. ASSUME NEW k \in Intents, PaymentStep(k) PROVE IndInv'
  <2>1. TypeOK'
    BY <1>15 DEF PaymentStep, TypeOK, IntentStatuses, Times
  <2>2. UNCHANGED <<ticketVars, scanVars>>
    BY <1>15 DEF PaymentStep
  <2> QED
    BY <2>1, <2>2, BystandersKeepTickets
<1>16. CASE UNCHANGED vars
  <2>1. TypeOK'
    BY <1>16 DEF vars, TypeOK
  <2> QED
    BY <1>16, <2>1, BystandersKeepTickets DEF vars
<1> QED
  BY <1>1, <1>2, <1>3, <1>4, <1>5, <1>6, <1>7, <1>8, <1>9, <1>10, <1>11, <1>12,
      <1>13, <1>14, <1>15, <1>16 DEF Next, TicketStep

\* So IndInv is an invariant.
LEMMA IndInvHolds == Spec => []IndInv
BY InitEstablishesIndInv, StepPreservesIndInv, PTL DEF Spec

\* Tickets, scans and audit rows keep their types.
THEOREM TypesHold == Spec => []TypeOK
<1>1. IndInv => TypeOK
  BY DEF IndInv
<1> QED
  BY IndInvHolds, <1>1, PTL

\* Whatever the number of gates, and whatever they and the issuances do, a
\* ticket is accepted at most once and is USED exactly when its ACCEPTED audit
\* row exists.
THEOREM TicketAdmitsOnce == Spec => []AdmittedOnce
<1>1. IndInv => AdmittedOnce
  BY DEF IndInv
<1> QED
  BY IndInvHolds, <1>1, PTL

\* Every accepted scan passed all the checks that scanTicket makes before its
\* transaction, against a ticket that still carries the same token and expiry.
THEOREM AcceptedScansPassedTheChecks == Spec => []AcceptedHadTheRight
<1>1. IndInv => AcceptedHadTheRight
  BY DEF IndInv
<1> QED
  BY IndInvHolds, <1>1, PTL

\* No later issuance replaces a ticket's token or expiry or revives it.
THEOREM NoReissue == Spec => TicketIsNeverReissued
<1>1. IndInv /\ [Next]_vars =>
        [\A k \in Intents : ticket[k] # "ABSENT" =>
            /\ token'[k] = token[k]
            /\ expiresAt'[k] = expiresAt[k]
            /\ ticket[k] = "USED" => ticket'[k] = "USED"]_vars
  <2> SUFFICES ASSUME IndInv, Next, NEW k \in Intents, ticket[k] # "ABSENT"
              PROVE  /\ token'[k] = token[k]
                     /\ expiresAt'[k] = expiresAt[k]
                     /\ ticket[k] = "USED" => ticket'[k] = "USED"
    OBVIOUS
  <2> USE DEF IndInv, TypeOK, ticketVars
  <2>1. CASE \E i \in Issuances, j \in Intents : IssueTicket(i, j)
    BY <2>1 DEF IssueTicket
  <2>2. CASE \E s \in Scans : AdmitTicket(s)
    BY <2>2 DEF AdmitTicket, MoveScan
  <2>3. CASE UNCHANGED <<ticket, token, expiresAt>>
    BY <2>3
  <2>4. \/ \E i \in Issuances, j \in Intents : IssueTicket(i, j)
        \/ \E s \in Scans : AdmitTicket(s)
        \/ UNCHANGED <<ticket, token, expiresAt>>
    BY DEF Next, TicketStep, RejectIssuance, ReplayIssuance, RespondWithToken,
           AbandonIssuance, ScanTicket, RejectReplay, ReplyScan, AbandonScan,
           MoveScan, cancelOwned, publishOwned, ReadForUpdate, updateOwned, Tick, PaymentStep
  <2> QED
    BY <2>1, <2>2, <2>3, <2>4
<1> QED
  BY IndInvHolds, <1>1, PTL DEF Spec, TicketIsNeverReissued
=============================================================================
