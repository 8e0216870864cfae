---------------------------- MODULE MCBackOffice ----------------------------
(* Small instances of Sessions and AdminSupport, checked in one run.  They share
   no variable, so each behaviour moves one of them, chosen at the start, and
   leaves the other at its initial state. *)
EXTENDS Sessions, AdminSupport, TLC

CONSTANT admin

VARIABLE part

MCTokenRole == [a \in Actors |-> IF a = admin THEN "ADMIN" ELSE "ORGANIZER"]

ListOf(kind, search, limit, offset) ==
    [kind |-> kind, id |-> Null, search |-> search, limit |-> limit, offset |-> offset]

DetailOf(kind, id) == [kind |-> kind, id |-> id, search |-> Null, limit |-> 1, offset |-> 0]

MCQueries ==
    {ListOf("auditLog", Null, 3, 0), ListOf("auditLog", Null, 3, 3),
     ListOf("auditLog", "SUCCEEDED", 2, 0), ListOf("organizer", "token", 2, 0),
     ListOf("event", "accra", 2, 1), ListOf("admissionScan", "t-1", 1, 0),
     DetailOf("ticket", "t-1"), DetailOf("ticket", "t-9")}

Row(kind, id, at, cells) ==
    [kind |-> kind,
     row  |-> [id |-> id, at |-> at, page |-> Null,
               cells |-> cells \cup {[path |-> <<"id">>, value |-> {id}]}]]

Cell(path, value) == [path |-> path, value |-> value]

MCStored ==
    {Row("organizer", "o-1", 0, {Cell(<<"displayName">>, {"token", "night"})}),
     Row("event", "e-1", 0, {Cell(<<"city">>, {"accra"})}),
     Row("event", "e-2", 1, {Cell(<<"country">>, {"accra"})}),
     Row("ticket", "t-1", 0, {Cell(<<"admissionTokenHash">>, {"x"})}),
     Row("admissionScan", "s-1", 0, {Cell(<<"ticketId">>, {"t-1"}),
                                     Cell(<<"rejectionReason">>, {"token"})}),
     Row("auditLog", "g-1", 0, {Cell(<<"status">>, {"SUCCEEDED"}),
                                Cell(<<"metadata", "filters", "X-Session-Token">>, {"x"})}),
     Row("auditLog", "g-2", 1, {Cell(<<"status">>, {"SUCCEEDED"}),
                                Cell(<<"metadata", "headers", "authorization">>, {"x"})}),
     Row("auditLog", "g-3", 2, {Cell(<<"status">>, {"FAILED"}),
                                Cell(<<"metadata", "url">>, {"db-url"}),
                                Cell(<<"metadata", "Api_Key">>, {"x"})}),
     Row("auditLog", "g-4", 2, {Cell(<<"status">>, {"SUCCEEDED"})})}

MCAdded == {Row("auditLog", "g-5", 0, {Cell(<<"status">>, {"SUCCEEDED"})})}

PartInit ==
    /\ part \in {"sessions", "support"}
    /\ Init /\ SupportInit

PartNext ==
    \/ part = "sessions" /\ Next /\ UNCHANGED <<part, supportVars>>
    \/ part = "support" /\ SupportNext /\ UNCHANGED <<part, vars>>

PartSpec == PartInit /\ [][PartNext]_<<part, vars, supportVars>>

Symmetry == Permutations(Lookups)
=============================================================================
