---------------------------- MODULE AdminSupport ----------------------------
(***************************************************************************)
(* Read-only lookups of the support staff (AdminSupportService): a call    *)
(* passes the guards, reads a page of a table or one row of it, maps and   *)
(* redacts what it read, writes a row to admin_support_audit_logs and only *)
(* then answers.  No transaction spans these steps.                        *)
(*                                                                         *)
(* A text is the set of the fragments it contains, lower-cased: "contains" *)
(* is membership.  A row is a set of cells, each the path of keys that     *)
(* leads to a text (one key for a column, more inside a JSON column).  The *)
(* numbers in the metadata of an audit row are kept apart, in page.        *)
(***************************************************************************)
EXTENDS Naturals, Sequences, FiniteSets, Access

CONSTANTS
    Actors,
    TokenRole,      \* the role in an actor's access token
    Lookups,        \* calls of the controller, each runs once
    Queries,        \* the requests, see QueryAssumption
    Stored,         \* rows in the tables at the start
    Added,          \* rows other services may insert meanwhile
    Uuids,          \* texts that isUuid accepts
    EnvSecrets,     \* values of DATABASE_URL, REDIS_URL and the API and JWT secrets
    RiskyKeys,      \* keys that normalizeKey takes to a forbidden one, or to one that
                    \* contains one of HIGH_RISK_KEY_FRAGMENTS
    StartTime,
    MaxClock,       \* bound of the clock
    Null

Kinds == {"user", "organizer", "event", "payment", "ticket", "admissionScan", "auditLog"}

\* AdminLookupQueryDto and ParseUUIDPipe; id is Null in a list request.
ASSUME QueryAssumption ==
    /\ TokenRole \in [Actors -> AppRoles]
    /\ StartTime \in Nat /\ MaxClock \in Nat
    /\ \A q \in Queries :
        /\ q.kind \in Kinds
        /\ q.limit \in 1 .. 100 /\ q.offset \in Nat
        /\ q.id # Null => /\ q.id \in Uuids /\ q.kind # "auditLog"
                          /\ q.search = Null /\ q.limit = 1 /\ q.offset = 0

\* A row has its own id, never that of an audit row written here.
ASSUME RowAssumption ==
    /\ IsFiniteSet(Stored)
    /\ StartTime <= MaxClock
    /\ \A s \in Stored \cup Added :
        /\ s.kind \in Kinds
        /\ DOMAIN s.row = {"id", "at", "page", "cells"}
        /\ s.row.id \notin Lookups
        /\ s.row.at \in 0 .. MaxClock
        /\ \A x \in s.row.cells : Len(x.path) > 0

Permission ==
    [user          |-> "ADMIN_SUPPORT_READ_USERS",
     organizer     |-> "ADMIN_SUPPORT_READ_ORGANIZERS",
     event         |-> "ADMIN_SUPPORT_READ_EVENTS",
     payment       |-> "ADMIN_SUPPORT_READ_PAYMENTS",
     ticket        |-> "ADMIN_SUPPORT_READ_TICKETS",
     admissionScan |-> "ADMIN_SUPPORT_READ_ADMISSIONS",
     auditLog      |-> "ADMIN_SUPPORT_READ_AUDIT_LOGS"]

SUPPORT_TARGET_TYPES ==
    [user          |-> "user",
     organizer     |-> "organizer",
     event         |-> "event",
     payment       |-> "payment_intent",
     ticket        |-> "ticket",
     admissionScan |-> "admission_scan_audit",
     auditLog      |-> "admin_support_audit_log"]

\* The columns a query selects and the response carries.
Selected ==
    [user |-> {"id", "email", "role", "isActive", "createdAt", "updatedAt"},
     organizer |->
        {"id", "ownerUserId", "displayName", "slug", "status", "contactEmail", "contactPhone",
         "createdAt", "updatedAt"},
     event |->
        {"id", "organizerId", "title", "slug", "status", "visibility", "category", "startsAt",
         "endsAt", "venueName", "city", "country", "paymentEnabled", "priceMinor",
         "priceCurrency", "publishedAt", "cancelledAt", "createdAt", "updatedAt"},
     payment |->
        {"id", "buyerUserId", "organizerId", "eventId", "provider", "status", "amountMinor",
         "currency", "providerReference", "providerVerifiedStatus", "providerVerifiedAmount",
         "providerVerifiedCurrency", "createdAt", "updatedAt", "verifiedAt", "failedAt"},
     ticket |->
        {"id", "ticketNumber", "ownerUserId", "eventId", "organizerId", "paymentIntentId",
         "status", "issuedAt", "usedAt", "voidedAt", "expiresAt"},
     admissionScan |->
        {"id", "ticketId", "eventId", "organizerId", "scannedByUserId", "status",
         "rejectionReason", "deviceId", "gateLabel", "scannedAt"},
     auditLog |->
        {"id", "actorUserId", "action", "status", "targetType", "targetId", "reasonCode",
         "reasonNote", "metadata", "createdAt"}]

\* The columns a search looks into: texts that contain it, and identifiers
\* that equal it when it is a UUID (build*Where).
TextColumns ==
    [user          |-> {"email"},
     organizer     |-> {"displayName", "slug"},
     event         |-> {"title", "slug", "city", "country"},
     payment       |-> {"providerReference"},
     ticket        |-> {"ticketNumber"},
     admissionScan |-> {},
     auditLog      |-> {"action", "targetType", "reasonCode"}]

UuidColumns ==
    [user          |-> {"id"},
     organizer     |-> {"id"},
     event         |-> {"id"},
     payment       |-> {"id", "buyerUserId", "eventId"},
     ticket        |-> {"id", "ownerUserId", "eventId"},
     admissionScan |-> {"id", "ticketId", "eventId", "organizerId"},
     auditLog      |-> {"actorUserId", "targetId"}]

AdminActionStatuses == {"SUCCEEDED", "REJECTED", "FAILED"}

-----------------------------------------------------------------------------
(* Redaction *)

FORBIDDEN_EXACT_KEYS ==
    {"password", "passwordHash", "accessToken", "refreshToken", "refreshTokenHash",
     "previousRefreshTokenHash", "sessionTokenHash", "admissionToken", "admissionTokenHash",
     "tokenHash", "scanNonceHash", "providerRawResponse", "providerVerificationRaw",
     "providerAccessCode", "providerCheckoutUrl", "authorizationUrl", "rawPayload",
     "rawHeaders", "verifiedPayload", "apiKey", "authorization", "cookie", "set-cookie",
     "x-paystack-signature", "x-reference-id", "DATABASE_URL", "REDIS_URL",
     "PAYSTACK_SECRET_KEY", "MTN_MOMO_API_KEY", "MTN_MOMO_API_SECRET",
     "MTN_MOMO_SUBSCRIPTION_KEY", "JWT_SECRET", "JWT_ACCESS_SECRET", "JWT_REFRESH_SECRET"}

\* A key is compared as normalizeKey leaves it, without case and punctuation: the
\* other spellings of the keys above, and the keys with a fragment, are RiskyKeys.
ShouldRedactKey(key) == key \in FORBIDDEN_EXACT_KEYS \cup RiskyKeys

SensitiveFragments ==
    {"postgres://", "postgresql://", "redis://", "bearer ",
     "password", "secret", "token", "apikey", "authorization", "cookie"} \cup EnvSecrets

\* What the service itself writes is harmless: the columns of an audit row are
\* no risky keys, and no identifier or constant text is a secret.
ASSUME TextAssumption ==
    /\ RiskyKeys \cap {"actorUserId", "status", "targetType", "reasonCode", "targetId"} = {}
    /\ (Actors \cup Uuids) \cap SensitiveFragments = {}
    /\ EnvSecrets \cap ({SUPPORT_TARGET_TYPES[k] : k \in Kinds}
                        \cup {"SUCCEEDED", "SUPPORT_READ", "[REDACTED]"}) = {}

ShouldRedactStringValue(value) == value \cap SensitiveFragments # {}

MutantRedact(cells) ==
    {[path  |-> x.path,
      value |-> IF ShouldRedactStringValue(x.value) THEN {"[REDACTED]"} ELSE x.value] :
        x \in {y \in cells : ~ ShouldRedactKey(y.path[1])}}

\* redactUnknown: a forbidden key at any depth goes, with all below it.
Redact(cells) ==
    {[path  |-> x.path,
      value |-> IF ShouldRedactStringValue(x.value) THEN {"[REDACTED]"} ELSE x.value] :
        x \in {y \in cells : \A i \in DOMAIN y.path : ~ ShouldRedactKey(y.path[i])}}

-----------------------------------------------------------------------------
(* Queries *)

\* The text in the column of a row, empty if it is null.
Text(row, column) == UNION {x.value : x \in {y \in row.cells : y.path = <<column>>}}

Matches(kind, row, search) ==
    \/ \E column \in TextColumns[kind] : search \in Text(row, column)
    \/ search \in Uuids /\ \E column \in UuidColumns[kind] : Text(row, column) = {search}
    \/ kind = "auditLog" /\ search \in AdminActionStatuses /\ Text(row, "status") = {search}

NoneNewerOutside(part, rows) == \A r \in part, s \in rows \ part : s.at <= r.at

MutantPagesOneTooMany(rows, offset, limit) ==
    {page \in SUBSET rows :
        \E skipped \in SUBSET (rows \ page) :
            /\ Cardinality(skipped) <= offset
            /\ Cardinality(page) <= limit + 1
            /\ NoneNewerOutside(skipped, rows)
            /\ NoneNewerOutside(skipped \cup page, rows)}

MutantPagesOneTooFew(rows, offset, limit) ==
    {page \in SUBSET rows :
        \E skipped \in SUBSET (rows \ page) :
            /\ Cardinality(skipped) <= offset
            /\ Cardinality(page) <= limit - 1
            /\ Cardinality(skipped) < offset => skipped = rows
            /\ Cardinality(page) < limit - 1 => skipped \cup page = rows
            /\ NoneNewerOutside(skipped, rows)
            /\ NoneNewerOutside(skipped \cup page, rows)}

\* orderBy createdAt desc, skip, take: rows of the same instant come in any
\* order, which need not be the same for two queries.
Pages(rows, offset, limit) ==
    {page \in SUBSET rows :
        \E skipped \in SUBSET (rows \ page) :
            /\ Cardinality(skipped) <= offset
            /\ Cardinality(page) <= limit
            /\ Cardinality(skipped) < offset => skipped = rows
            /\ Cardinality(page) < limit => skipped \cup page = rows
            /\ NoneNewerOutside(skipped, rows)
            /\ NoneNewerOutside(skipped \cup page, rows)}

Response(kind, row) ==
    [id |-> row.id, at |-> row.at, page |-> row.page,
     cells |-> Redact({x \in row.cells : x.path[1] \in Selected[kind]})]

-----------------------------------------------------------------------------
VARIABLES
    table,      \* rows of each kind
    live,       \* actors whose session is usable
    lookup,     \* the calls
    clock

supportVars == <<table, live, lookup, clock>>

NoLookup ==
    [pc |-> "idle", actor |-> Null, query |-> Null, items |-> {},
     late |-> FALSE,        \* history: the session had ended when it arrived
     after |-> {},          \* history: calls answered before it arrived
     present |-> {}]        \* history: the rows in the table when it read

SupportTypeOK ==
    /\ DOMAIN table = Kinds
    /\ \A k \in Kinds : \A r \in table[k] :
        /\ r.at \in 0 .. MaxClock
        /\ \A x \in r.cells : Len(x.path) > 0
    /\ live \in SUBSET Actors
    /\ clock \in 0 .. MaxClock
    /\ DOMAIN lookup = Lookups
    /\ \A c \in Lookups :
        /\ DOMAIN lookup[c] = DOMAIN NoLookup
        /\ lookup[c].pc \in {"idle", "new", "admitted", "read", "recorded", "answered",
                             "refused", "missing", "failed", "lost"}
        /\ lookup[c].query # Null => lookup[c].actor \in Actors /\ lookup[c].query \in Queries
        /\ lookup[c].items # {} => Cardinality(lookup[c].items) <= lookup[c].query.limit

SupportInit ==
    /\ table = [k \in Kinds |-> {s.row : s \in {t \in Stored : t.kind = k}}]
    /\ live = Actors
    /\ lookup = [c \in Lookups |-> NoLookup]
    /\ clock = StartTime

-----------------------------------------------------------------------------
(* The life of a call *)

Goto(c, pc) == lookup' = [lookup EXCEPT ![c].pc = pc]

\* The call ends without an answer, and what it held is gone.
EndAs(c, pc) == lookup' = [lookup EXCEPT ![c] = [NoLookup EXCEPT !.pc = pc]]

Arrive(c, a, q) ==
    /\ lookup[c].pc = "idle"
    /\ lookup' = [lookup EXCEPT ![c] =
                    [NoLookup EXCEPT !.pc = "new", !.actor = a, !.query = q,
                                     !.late = a \notin live,
                                     !.after = {d \in Lookups : lookup[d].pc = "answered"}]]
    /\ UNCHANGED <<table, live, clock>>

\* AccessTokenStrategy.validate, then PermissionsGuard.
Admissible(c) ==
    /\ lookup[c].actor \in live
    /\ Permitted(TokenRole[lookup[c].actor], {Permission[lookup[c].query.kind]})

Admit(c) ==
    /\ lookup[c].pc = "new" /\ Admissible(c)
    /\ Goto(c, "admitted")
    /\ UNCHANGED <<table, live, clock>>

Refuse(c) ==
    /\ lookup[c].pc = "new" /\ ~ Admissible(c)
    /\ EndAs(c, "refused")
    /\ UNCHANGED <<table, live, clock>>

\* The repository's list methods, mapped and redacted.
List(c) ==
    /\ lookup[c].pc = "admitted" /\ lookup[c].query.id = Null
    /\ LET q == lookup[c].query
           matching == {r \in table[q.kind] : q.search = Null \/ Matches(q.kind, r, q.search)}
       IN \E page \in Pages(matching, q.offset, q.limit) :
             lookup' = [lookup EXCEPT ![c].pc = "read", ![c].present = table[q.kind],
                                      ![c].items = {Response(q.kind, r) : r \in page}]
    /\ UNCHANGED <<table, live, clock>>

\* The repository's get...ById methods.
Get(c) ==
    /\ lookup[c].pc = "admitted" /\ lookup[c].query.id # Null
    /\ LET q == lookup[c].query IN
       \E r \in table[q.kind] :
          /\ r.id = q.id
          /\ lookup' = [lookup EXCEPT ![c].pc = "read", ![c].items = {Response(q.kind, r)}]
    /\ UNCHANGED <<table, live, clock>>

\* No row: NotFoundException, and no trace in the log.
GetMissing(c) ==
    /\ lookup[c].pc = "admitted" /\ lookup[c].query.id # Null
    /\ lookup[c].query.id \notin {r.id : r \in table[lookup[c].query.kind]}
    /\ EndAs(c, "missing")
    /\ UNCHANGED <<table, live, clock>>

Column(name, text) == [path |-> <<name>>, value |-> {text}]

\* The row recordRead writes: metadata is redacted, the columns are not.
AuditRow(c) ==
    LET q == lookup[c].query
        metadata == {[path |-> <<"metadata", "filters", "search">>, value |-> {text}] :
                        text \in {q.search} \ {Null}}
    IN [id    |-> c, at |-> clock,
        page  |-> [limit |-> q.limit, offset |-> q.offset,
                   resultCount |-> Cardinality(lookup[c].items)],
        cells |-> {Column("actorUserId", lookup[c].actor), Column("status", "SUCCEEDED"),
                   Column("targetType", SUPPORT_TARGET_TYPES[q.kind]),
                   Column("reasonCode", "SUPPORT_READ")}
                  \cup {Column("targetId", id) : id \in {q.id} \ {Null}}
                  \cup Redact(metadata)]

RecordRead(c) ==
    /\ lookup[c].pc = "read"
    /\ table' = [table EXCEPT !["auditLog"] = @ \cup {AuditRow(c)}]
    /\ Goto(c, "recorded")
    /\ UNCHANGED <<live, clock>>

MutantRecordReadFails(c) ==
    /\ lookup[c].pc = "read"
    /\ UNCHANGED table
    /\ Goto(c, "recorded")
    /\ UNCHANGED <<live, clock>>

\* createAuditLog throws, the row committed or not: the call fails (500) and
\* what was read is not sent.
RecordReadFails(c) ==
    /\ lookup[c].pc = "read"
    /\ \/ UNCHANGED table
       \/ table' = [table EXCEPT !["auditLog"] = @ \cup {AuditRow(c)}]
    /\ EndAs(c, "failed")
    /\ UNCHANGED <<live, clock>>

Answer(c) ==
    /\ lookup[c].pc = "recorded"
    /\ Goto(c, "answered")
    /\ UNCHANGED <<table, live, clock>>

\* The process dies, or a read throws.
AbandonLookup(c) ==
    /\ lookup[c].pc \in {"new", "admitted", "read", "recorded"}
    /\ EndAs(c, "lost")
    /\ UNCHANGED <<table, live, clock>>

\* A session is revoked or runs out.
EndSession(a) ==
    /\ a \in live
    /\ live' = live \ {a}
    /\ UNCHANGED <<table, lookup, clock>>

\* Another service commits a row; created_at is when its transaction began.
Insert(s, at) ==
    /\ s.row.id \notin {r.id : r \in table[s.kind]}
    /\ table' = [table EXCEPT ![s.kind] = @ \cup {[s.row EXCEPT !.at = at]}]
    /\ UNCHANGED <<live, lookup, clock>>

SupportTick ==
    /\ clock < MaxClock
    /\ clock' = clock + 1
    /\ UNCHANGED <<table, live, lookup>>

SupportNext ==
    \/ \E c \in Lookups, a \in Actors, q \in Queries : Arrive(c, a, q)
    \/ \E c \in Lookups :
          \/ Admit(c) \/ Refuse(c) \/ List(c) \/ Get(c) \/ GetMissing(c)
          \/ RecordRead(c) \/ RecordReadFails(c) \/ Answer(c) \/ AbandonLookup(c)
    \/ \E a \in Actors : EndSession(a)
    \/ \E s \in Added, at \in 0 .. clock : Insert(s, at)
    \/ SupportTick

SupportSpec == SupportInit /\ [][SupportNext]_supportVars

-----------------------------------------------------------------------------
(* Properties *)

\* Nobody learns anything without a trace: whoever got an answer arrived with
\* a usable session, and the log holds a row with the actor, the target and
\* the number of records, whatever failed or crashed on the way.
EveryAnswerIsTraced ==
    \A c \in Lookups : lookup[c].pc = "answered" =>
        /\ ~ lookup[c].late
        /\ \E r \in table["auditLog"] :
            /\ r.id = c
            /\ Text(r, "actorUserId") = {lookup[c].actor}
            /\ Text(r, "targetType") = {SUPPORT_TARGET_TYPES[lookup[c].query.kind]}
            /\ Text(r, "targetId") = {lookup[c].query.id} \ {Null}
            /\ r.page.resultCount = Cardinality(lookup[c].items)

Harmless(cells) ==
    \A x \in cells :
        /\ \A i \in DOMAIN x.path : ~ ShouldRedactKey(x.path[i])
        /\ ~ ShouldRedactStringValue(x.value)

\* No answer, and no audit row a lookup wrote, holds a forbidden key at any
\* depth or a text with a sensitive fragment: not from a column, not from the
\* metadata of an old audit row, not from what the caller searched for.
NothingSensitiveLeaves ==
    /\ \A c \in Lookups : lookup[c].pc = "answered" =>
          \A item \in lookup[c].items : Harmless(item.cells)
    /\ \A r \in table["auditLog"] : r.id \in Lookups => Harmless(r.cells)

Ids(rows) == {r.id : r \in rows}

\* b asks for the page that follows the page a got, and reaches the end.
FollowsToTheEnd(a, b) ==
    LET p == lookup[a].query
        q == lookup[b].query
    IN /\ lookup[a].pc = "answered" /\ lookup[b].pc = "answered"
       /\ a \in lookup[b].after
       /\ p.kind = q.kind /\ p.id = Null /\ q.id = Null
       /\ p.search = Null /\ q.search = Null
       /\ p.offset = 0 /\ q.offset = p.limit
       /\ Cardinality(lookup[b].present) <= q.offset + q.limit

\* Whoever pages to the end sees every row that was there when it began, new
\* rows (the audit rows of the lookups themselves included) notwithstanding,
\* except rows that share their timestamp with another one.
PagesMissNothing ==
    \A a, b \in Lookups : FollowsToTheEnd(a, b) =>
        \A r \in lookup[a].present :
            (\A s \in lookup[b].present : s.at = r.at => s.id = r.id)
                => r.id \in Ids(lookup[a].items) \cup Ids(lookup[b].items)
=============================================================================
