---------------------------- MODULE TicketSystem ----------------------------
(***************************************************************************)
(* The purchase path end to end: PaymentIntents and Tickets interleaved    *)
(* over one payment_intents table.  The services share nothing else: the   *)
(* payment services write the status column, issuance reads it.            *)
(***************************************************************************)
EXTENDS PaymentIntents, Naturals

CONSTANTS Issuances, Scans, ScanInputs, MaxTime

VARIABLES ticket, token, expiresAt, issueAudit, ipc, held, spc, sin, scannedAt,
          scanAudit, eventStatus, endsAt, upc, now

T == INSTANCE Tickets WITH Intents <- Keys, intentStatus <- status

\* What Tickets assumes of its constants.
ASSUME GateAssumption ==
    /\ MaxTime \in Nat
    /\ ScanInputs \subseteq [ticket: Keys, token: Issuances \cup {None},
                             authorised: BOOLEAN, sameEvent: BOOLEAN]
    /\ None \notin Issuances \cup Scans \cup ScanInputs \cup T!Rejections \cup {"ACCEPTED"}

\* The state of the ticket and admission services, and their clock.
ticketOwnVars == <<ticket, token, expiresAt, issueAudit, ipc, held, spc, sin,
                   scannedAt, scanAudit, eventStatus, endsAt, upc, now>>

ticketSystemVars == <<vars, ticketOwnVars>>

SystemInit == Init /\ T!TicketInit

\* A step of a payment process, or of a ticket or admission process.
SystemNext ==
    \/ /\ Next
       /\ UNCHANGED ticketOwnVars
    \/ /\ T!TicketStep
       /\ UNCHANGED <<terms, verified, audit, requestVars, deliveryVars, event, charge>>

SystemSpec == SystemInit /\ [][SystemNext]_ticketSystemVars

-----------------------------------------------------------------------------
(* Properties *)

\* The purchases that the provider has captured in full.
FullyCaptured ==
    {k \in Keys : Captured(k) /\ terms[k] # None /\ charge[k].amount = terms[k].amount}

\* The scan that spent a ticket, given the scans that were accepted for it.
Spender(accepted) == IF accepted = {} THEN None ELSE CHOOSE s \in accepted : TRUE

Entry == INSTANCE SingleEntry WITH
    Purchases <- Keys,
    Entrances <- Scans,
    Nobody <- None,
    paid <- FullyCaptured,
    pass <- [k \in Keys |-> IF ticket[k] = "ABSENT" THEN "none"
                            ELSE IF ticket[k] = "ISSUED" THEN "valid" ELSE "spent"],
    spender <- [k \in Keys |-> Spender(T!Accepted(k))]

\* The services together implement SingleEntry: a ticket exists only for funds
\* that the provider really captured in full, even while initiation retries
\* overwrite the intent's status, and each ticket admits one scan once.
ImplementsSingleEntry == Entry!Spec

\* The payment services stay within what Tickets assumes of them: no
\* initiation, webhook or failure removes an intent that exists.
KeepsTicketAssumption == T!Spec
=============================================================================
