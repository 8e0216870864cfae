--------------------------- MODULE MCTicketSystem ---------------------------
(***************************************************************************)
(* One purchase: its initiation, its webhook, one issuance, two scans.     *)
(***************************************************************************)
EXTENDS TicketSystem, TLC

CONSTANTS b1, k1, x, m1, m2, h1

OneInput == {[buyer |-> b1, key |-> k1, provider |-> "PAYSTACK", details |-> x,
              amount |-> m1]}

OneEvent == {[provider |-> "PAYSTACK", dataId |-> None, payloadHash |-> h1,
              reference |-> k1, supported |-> TRUE, signed |-> TRUE]}
\* The buyer's token, at either gate.
OwnToken == [ticket: Keys, token: Issuances, authorised: {TRUE}, sameEvent: {TRUE}]

Symmetric == Permutations(Scans) \cup Permutations(Requests)
=============================================================================
