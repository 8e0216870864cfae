------------------------------ MODULE MCTickets ------------------------------
(***************************************************************************)
(* Small instances of Tickets and Catalog, checked in one run.  They share *)
(* no variable, so each behaviour moves one of them, chosen at the start,  *)
(* and leaves the other at its initial state.  Tickets: one payment        *)
(* intent, two issuances, two gates and a clock that passes the end of the *)
(* event.  Catalog: four calls over an organizer and an event.             *)
(***************************************************************************)
EXTENDS Tickets, Catalog, TLC

CONSTANTS u1, u2

VARIABLE part

\* Any token, at most one check failing by the scanner's fault.
ScansAtGates ==
    {in \in [ticket: Intents, token: Issuances \cup {None},
              authorised: BOOLEAN, sameEvent: BOOLEAN] :
        /\ in.authorised \/ in.sameEvent
        /\ in.token = None => in.authorised /\ in.sameEvent}

MCRoleOf == (u1 :> "ORGANIZER") @@ (u2 :> "GATE_STAFF")

Dto(s, d, b) == [startsAt |-> s, endsAt |-> d, complete |-> b]

MCDrafts == {Dto(1, 3, TRUE), Dto(1, 3, FALSE), Dto(2, 2, TRUE)}

\* One date each, so that two of them cross; both; and a capacity removed.
MCEdits ==
    {Dto(2, Nothing, Nothing), Dto(Nothing, 2, Nothing), Dto(1, 3, TRUE),
     Dto(Nothing, Nothing, FALSE)}

PartInit ==
    /\ part \in {"tickets", "catalog"}
    /\ Init /\ CatalogInit
    /\ part # "catalog" => \A o \in Organizers : organizer[o] = NoOrganizer

PartNext ==
    \/ part = "tickets" /\ Next /\ UNCHANGED <<part, catalogVars>>
    \/ part = "catalog" /\ CatalogNext /\ UNCHANGED <<part, vars>>

PartSpec == PartInit /\ [][PartNext]_<<part, vars, catalogVars>>

Symmetric == Permutations(Issuances) \cup Permutations(Scans) \cup Permutations(Profiles)
=============================================================================
