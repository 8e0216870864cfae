------------------------------ MODULE Catalog -------------------------------
(***************************************************************************)
(* Organizers and their events (OrganizersService, EventsService), and the *)
(* check a payment makes on both before an intent is stored.               *)
(*                                                                         *)
(* No operation runs in a transaction: each reads the row, judges the      *)
(* copy, and after an await writes the row by its id alone, so whatever    *)
(* became of the row in between is overwritten.  A call is therefore two   *)
(* steps, the check and the write, and may die or be refused by a unique   *)
(* index (a slug already taken) between them.  The data of a row is        *)
(* reduced to what the checks look at.                                     *)
(***************************************************************************)
EXTENDS Naturals, Access

CONSTANTS
    Users,
    RoleOf,             \* the role in a user's access token
    Organizers, Events,
    Calls,              \* calls of the operations below, numbered as they come
    Dates,              \* instants a request may name
    Drafts,             \* what a CreateEventRequestDto may hold
    Edits,              \* what an UpdateEventRequestDto may hold
    Profiles,           \* displayName, slug, contacts of an organizer
    PilotEvents,        \* PILOT_ALLOWED_EVENT_IDS, empty if not configured
    PilotOrganizers,    \* PILOT_ALLOWED_ORGANIZER_IDS
    PaymentsEnabled,    \* PILOT_PAYMENTS_ENABLED
    Nothing             \* a field the request leaves out

ASSUME CatalogAssumption ==
    /\ RoleOf \in [Users -> AppRoles]
    /\ Organizers \cap Events = {}     \* ids of different tables are different
    /\ Calls \subseteq Nat
    /\ Dates \subseteq Nat
    /\ Nothing \notin Dates /\ Nothing \notin BOOLEAN
    /\ Drafts \subseteq [startsAt: Dates, endsAt: Dates, complete: BOOLEAN]
    /\ Edits \subseteq [startsAt: Dates \cup {Nothing}, endsAt: Dates \cup {Nothing},
                       complete: BOOLEAN \cup {Nothing}]
    /\ PaymentsEnabled \in BOOLEAN

VARIABLES
    organizer,      \* rows of organizers
    event,          \* rows of events
    request,        \* the calls
    first,          \* history: calls waiting to write when a row left DRAFT
    closing,        \* history: calls waiting when a row was last closed
    overlapped,     \* history: events on which two updates overlapped
    lateSales       \* history: events sold to a buyer who came after cancellation

catalogRows == <<organizer, event>>
historyVars == <<first, closing, overlapped, lateSales>>
catalogVars == <<catalogRows, request, historyVars>>

OrganizerStatuses == {"ABSENT", "DRAFT", "PENDING_REVIEW", "APPROVED", "REJECTED", "SUSPENDED"}

EventStatuses == {"ABSENT", "DRAFT", "PUBLISHED", "CANCELLED"}

NoOrganizer == [status |-> "ABSENT", owner |-> Nothing, profile |-> Nothing]

NoEvent ==
    [status |-> "ABSENT", organizer |-> Nothing, startsAt |-> Nothing, endsAt |-> Nothing,
     complete |-> FALSE, cancelledAt |-> FALSE, payable |-> FALSE]

OrganizerRows ==
    {NoOrganizer} \cup
    [status: OrganizerStatuses \ {"ABSENT"}, owner: Users, profile: Profiles]

EventRows ==
    {NoEvent} \cup
    [status: EventStatuses \ {"ABSENT"}, organizer: Organizers, startsAt: Dates, endsAt: Dates,
     complete: BOOLEAN,         \* title, venue, city, country and capacity are set
     cancelledAt: BOOLEAN,      \* the column is set
     payable: BOOLEAN]          \* payment enabled, with a price and a currency

Requests ==
    [op: {"idle", "done"}]
    \cup [op: {"submit", "publish", "cancel"}, on: Organizers \cup Events]
    \cup [op: {"updateOrganizer"}, on: Organizers, profile: Profiles]
    \cup [op: {"createEvent"}, on: Events, organizer: Organizers, dto: Drafts]
    \cup [op: {"updateEvent"}, on: Events, dto: Edits]
    \cup [op: {"pay"}, on: Events, late: BOOLEAN]

CatalogTypeOK ==
    /\ organizer \in [Organizers -> OrganizerRows]
    /\ event \in [Events -> EventRows]
    /\ \A c \in Calls : request[c] \in Requests
    /\ first \in [Organizers \cup Events -> SUBSET Calls]
    /\ closing \in [Organizers \cup Events -> SUBSET Calls]
    /\ overlapped \in SUBSET Events
    /\ lateSales \in SUBSET Events

ApprovedOrganizers == [status: {"APPROVED"}, owner: Users, profile: Profiles]

ValidDateRange(startsAt, endsAt) == endsAt > startsAt

\* The columns EventsService.createForOrganizer sets.
NewEvent(o, dto) ==
    [NoEvent EXCEPT !.status = "DRAFT", !.organizer = o, !.startsAt = dto.startsAt,
                    !.endsAt = dto.endsAt, !.complete = dto.complete]

\* The service starts on tables that hold nothing, or what earlier calls left:
\* organizers that were approved and events they drafted.
CatalogInit ==
    /\ organizer \in [Organizers -> {NoOrganizer} \cup ApprovedOrganizers]
    /\ event \in [Events -> {NoEvent} \cup
                    {NewEvent(o, dto) : o \in {o \in Organizers : organizer[o].status = "APPROVED"},
                                        dto \in {d \in Drafts : ValidDateRange(d.startsAt, d.endsAt)}}]
    /\ request = [c \in Calls |-> [op |-> "idle"]]
    /\ first = [x \in Organizers \cup Events |-> {}]
    /\ closing = [x \in Organizers \cup Events |-> {}]
    /\ overlapped = {}
    /\ lateSales = {}

-----------------------------------------------------------------------------
Waiting(c) == request[c].op \notin {"idle", "done"}

\* The calls of operations ops that have passed their check on x.
WaitingOn(x, ops) == {c \in Calls : Waiting(c) /\ request[c].op \in ops /\ request[c].on = x}

AllOps == {"submit", "publish", "cancel", "updateOrganizer", "createEvent", "updateEvent", "pay"}

NextCall(c) ==
    /\ request[c].op = "idle"
    /\ \A d \in Calls : d < c => request[d].op # "idle"

\* The check of a call passed: what it will write is fixed from here on.
Pass(c, r) ==
    /\ NextCall(c)
    /\ request' = [request EXCEPT ![c] = r]

Finish(c) == request' = [request EXCEPT ![c] = [op |-> "done"]]

\* OrganizersService.getOwned, and EventsService.getOwned through the
\* event's organizer; the guard has looked at the caller's token before.
OwnsOrganizer(u, o, permission) ==
    /\ Permitted(RoleOf[u], {permission})
    /\ organizer[o].status # "ABSENT"
    /\ organizer[o].owner = u

OwnsEvent(u, e, permission) ==
    /\ event[e].status # "ABSENT"
    /\ OwnsOrganizer(u, event[e].organizer, permission)

-----------------------------------------------------------------------------
\* OrganizersService.create: one INSERT, nothing is read before it.
CreateOrganizer(c, u, o, p) ==
    /\ NextCall(c)
    /\ Permitted(RoleOf[u], {"ORGANIZER_CREATE"})
    /\ organizer[o].status = "ABSENT"
    /\ organizer' = [organizer EXCEPT ![o] = [status |-> "DRAFT", owner |-> u, profile |-> p]]
    /\ Finish(c)
    /\ UNCHANGED <<event, historyVars>>

UpdateOrganizer(c, u, o, p) ==
    /\ OwnsOrganizer(u, o, "ORGANIZER_UPDATE_OWN")
    /\ organizer[o].status \notin {"SUSPENDED", "REJECTED"}
    /\ Pass(c, [op |-> "updateOrganizer", on |-> o, profile |-> p])
    /\ UNCHANGED <<catalogRows, historyVars>>

MutantSubmitForReview(c, u, o) ==
    /\ OwnsOrganizer(u, o, "ORGANIZER_SUBMIT_OWN")
    /\ organizer[o].status \in {"DRAFT", "REJECTED"}
    /\ Pass(c, [op |-> "submit", on |-> o])
    /\ UNCHANGED <<catalogRows, historyVars>>

SubmitForReview(c, u, o) ==
    /\ OwnsOrganizer(u, o, "ORGANIZER_SUBMIT_OWN")
    /\ organizer[o].status = "DRAFT"
    /\ Pass(c, [op |-> "submit", on |-> o])
    /\ UNCHANGED <<catalogRows, historyVars>>

SaveOrganizer(c) ==
    /\ request[c].op = "updateOrganizer"
    /\ organizer' = [organizer EXCEPT ![request[c].on].profile = request[c].profile]
    /\ Finish(c)
    /\ UNCHANGED <<event, historyVars>>

SaveSubmission(c) ==
    /\ request[c].op = "submit"
    /\ LET o == request[c].on IN
       /\ organizer' = [organizer EXCEPT ![o].status = "PENDING_REVIEW"]
       /\ first' = IF organizer[o].status = "DRAFT"
                     THEN [first EXCEPT ![o] = WaitingOn(o, {"submit"}) \ {c}]
                     ELSE first
    /\ Finish(c)
    /\ UNCHANGED <<event, closing, overlapped, lateSales>>

\* The review of an organizer; no code under src/ writes these statuses.
Review(o, s) ==
    /\ \/ organizer[o].status = "PENDING_REVIEW" /\ s \in {"APPROVED", "REJECTED"}
       \/ organizer[o].status = "APPROVED" /\ s = "SUSPENDED"
       \/ organizer[o].status = "SUSPENDED" /\ s = "APPROVED"
    /\ organizer' = [organizer EXCEPT ![o].status = s]
    /\ closing' = [closing EXCEPT ![o] = WaitingOn(o, AllOps)]
    /\ UNCHANGED <<event, request, first, overlapped, lateSales>>

-----------------------------------------------------------------------------
\* assertApprovedOwned, then assertValidDateRange on the request.
CreateForOrganizer(c, u, o, e, dto) ==
    /\ OwnsOrganizer(u, o, "EVENT_CREATE_OWN")
    /\ organizer[o].status = "APPROVED"
    /\ ValidDateRange(dto.startsAt, dto.endsAt)
    /\ event[e].status = "ABSENT" /\ WaitingOn(e, {"createEvent"}) = {}    \* a fresh id
    /\ Pass(c, [op |-> "createEvent", on |-> e, organizer |-> o, dto |-> dto])
    /\ UNCHANGED <<catalogRows, historyVars>>

InsertEvent(c) ==
    /\ request[c].op = "createEvent"
    /\ event' = [event EXCEPT ![request[c].on] = NewEvent(request[c].organizer, request[c].dto)]
    /\ Finish(c)
    /\ UNCHANGED <<organizer, historyVars>>

Given(field, otherwise) == IF field = Nothing THEN otherwise ELSE field

\* The row after events.update: only the fields of the request are written.
Written(row, dto) ==
    [row EXCEPT !.startsAt = Given(dto.startsAt, @), !.endsAt = Given(dto.endsAt, @),
                !.complete = Given(dto.complete, @)]

MutantUpdateOwned(c, u, e, dto) ==
    /\ OwnsEvent(u, e, "EVENT_UPDATE_OWN")
    /\ event[e].status # "CANCELLED"
    /\ Nothing \notin {dto.startsAt, dto.endsAt} => ValidDateRange(dto.startsAt, dto.endsAt)
    /\ Pass(c, [op |-> "updateEvent", on |-> e, dto |-> dto])
    /\ overlapped' = IF WaitingOn(e, {"updateEvent"}) = {} THEN overlapped ELSE overlapped \cup {e}
    /\ UNCHANGED <<catalogRows, first, closing, lateSales>>

\* The date range is judged on the row as read, completed by the request.
\* No code under src/ archives an event or writes capacityHeld, which is 0.
UpdateOwned(c, u, e, dto) ==
    /\ OwnsEvent(u, e, "EVENT_UPDATE_OWN")
    /\ event[e].status # "CANCELLED"
    /\ LET next == Written(event[e], dto) IN ValidDateRange(next.startsAt, next.endsAt)
    /\ Pass(c, [op |-> "updateEvent", on |-> e, dto |-> dto])
    /\ overlapped' = IF WaitingOn(e, {"updateEvent"}) = {} THEN overlapped ELSE overlapped \cup {e}
    /\ UNCHANGED <<catalogRows, first, closing, lateSales>>

MutantSaveEvent(c) ==
    /\ request[c].op = "updateEvent"
    /\ LET dto == request[c].dto IN
       event' = [event EXCEPT ![request[c].on].startsAt = dto.startsAt,
                              ![request[c].on].endsAt = dto.endsAt,
                              ![request[c].on].complete = dto.complete]
    /\ Finish(c)
    /\ UNCHANGED <<organizer, historyVars>>

SaveEvent(c) ==
    /\ request[c].op = "updateEvent"
    /\ event' = [event EXCEPT ![request[c].on] = Written(@, request[c].dto)]
    /\ Finish(c)
    /\ UNCHANGED <<organizer, historyVars>>

\* assertPublishable
Publishable(row) == row.complete /\ ValidDateRange(row.startsAt, row.endsAt)

MutantPublishOwned(c, u, e) ==
    /\ OwnsEvent(u, e, "EVENT_PUBLISH_OWN")
    /\ organizer[event[e].organizer].status = "APPROVED"
    /\ event[e].status # "PUBLISHED"
    /\ Publishable(event[e])
    /\ Pass(c, [op |-> "publish", on |-> e])
    /\ UNCHANGED <<catalogRows, historyVars>>

PublishOwned(c, u, e) ==
    /\ OwnsEvent(u, e, "EVENT_PUBLISH_OWN")
    /\ organizer[event[e].organizer].status = "APPROVED"
    /\ event[e].status = "DRAFT"
    /\ Publishable(event[e])
    /\ Pass(c, [op |-> "publish", on |-> e])
    /\ UNCHANGED <<catalogRows, historyVars>>

CancelOwned(c, u, e) ==
    /\ OwnsEvent(u, e, "EVENT_CANCEL_OWN")
    /\ event[e].status = "PUBLISHED"
    /\ Pass(c, [op |-> "cancel", on |-> e])
    /\ UNCHANGED <<catalogRows, historyVars>>

\* cancelledAt survives a later publication: setStatus writes what it is given.
SavePublication(c) ==
    /\ request[c].op = "publish"
    /\ LET e == request[c].on IN
       /\ event' = [event EXCEPT ![e].status = "PUBLISHED"]
       /\ first' = IF event[e].status = "DRAFT"
                     THEN [first EXCEPT ![e] = WaitingOn(e, {"publish"}) \ {c}]
                     ELSE first
    /\ Finish(c)
    /\ UNCHANGED <<organizer, closing, overlapped, lateSales>>

SaveCancellation(c) ==
    /\ request[c].op = "cancel"
    /\ LET e == request[c].on IN
       /\ event' = [event EXCEPT ![e].status = "CANCELLED", ![e].cancelledAt = TRUE]
       /\ closing' = [closing EXCEPT ![e] = WaitingOn(e, AllOps) \ {c}]
    /\ Finish(c)
    /\ UNCHANGED <<organizer, first, overlapped, lateSales>>

\* paymentEnabled and the price of an event; no code under src/ writes them.
ConfigurePayment(e) ==
    /\ event[e].status # "ABSENT" /\ ~ event[e].payable
    /\ event' = [event EXCEPT ![e].payable = TRUE]
    /\ UNCHANGED <<organizer, request, historyVars>>

-----------------------------------------------------------------------------
\* toReadonlySet: a list that is not configured, or is empty, allows all.
AllowedBy(list, x) == list = {} \/ x \in list

\* LaunchControlService.assertPaymentInitiationAllowed on the event's scope.
PaymentInitiationAllowed(e) ==
    /\ PaymentsEnabled
    /\ AllowedBy(PilotEvents, e)
    /\ AllowedBy(PilotOrganizers, event[e].organizer)

\* PaymentsService.assertEventEligible
EventEligible(e) ==
    /\ event[e].status = "PUBLISHED"
    /\ organizer[event[e].organizer].status = "APPROVED"
    /\ event[e].payable

InitiatePayment(c, u, e) ==
    /\ Permitted(RoleOf[u], {"PAYMENT_INITIATE_OWN"})
    /\ EventEligible(e) /\ PaymentInitiationAllowed(e)
    /\ Pass(c, [op |-> "pay", on |-> e, late |-> event[e].cancelledAt])
    /\ UNCHANGED <<catalogRows, historyVars>>

\* The transaction that stores the intent does not look at the event again.
StoreIntent(c) ==
    /\ request[c].op = "pay"
    /\ lateSales' = IF request[c].late THEN lateSales \cup {request[c].on} ELSE lateSales
    /\ Finish(c)
    /\ UNCHANGED <<catalogRows, first, closing, overlapped>>

\* The process dies, or the write fails (a slug is taken, the database is away).
AbandonCall(c) ==
    /\ Waiting(c)
    /\ Finish(c)
    /\ UNCHANGED <<catalogRows, historyVars>>

CatalogNext ==
    \/ \E c \in Calls, u \in Users, o \in Organizers, p \in Profiles :
          CreateOrganizer(c, u, o, p) \/ UpdateOrganizer(c, u, o, p)
    \/ \E c \in Calls, u \in Users, o \in Organizers : SubmitForReview(c, u, o)
    \/ \E c \in Calls, u \in Users, o \in Organizers, e \in Events, dto \in Drafts :
          CreateForOrganizer(c, u, o, e, dto)
    \/ \E c \in Calls, u \in Users, e \in Events, dto \in Edits : UpdateOwned(c, u, e, dto)
    \/ \E c \in Calls, u \in Users, e \in Events :
          PublishOwned(c, u, e) \/ CancelOwned(c, u, e) \/ InitiatePayment(c, u, e)
    \/ \E c \in Calls :
          \/ SaveOrganizer(c) \/ SaveSubmission(c) \/ InsertEvent(c) \/ SaveEvent(c)
          \/ SavePublication(c) \/ SaveCancellation(c) \/ StoreIntent(c) \/ AbandonCall(c)
    \/ \E o \in Organizers, s \in OrganizerStatuses : Review(o, s)
    \/ \E e \in Events : ConfigurePayment(e)

CatalogSpec == CatalogInit /\ [][CatalogNext]_catalogVars

-----------------------------------------------------------------------------
(* Properties *)

\* An event ends after it starts, unless two updates of it overlapped: each
\* mixes its own dates with the copy it read, and writes only its own.
DatesInOrder ==
    \A e \in Events :
        event[e].status # "ABSENT" /\ e \notin overlapped
            => event[e].startsAt < event[e].endsAt

\* A cancelled event is changed only by a call that had passed its check when
\* the event was cancelled, and published again only by one that was waiting
\* next to another publication when the event was first published.
CancelledIsFrozen ==
    [][\A e \in Events :
          event[e].status = "CANCELLED" /\ event'[e] # event[e] =>
              \/ \E c \in closing[e] :
                    /\ request'[c] # request[c]
                    /\ request[c].op = "publish" => c \in first[e]
              \/ event'[e] = [event[e] EXCEPT !.payable = TRUE]]_catalogVars

\* Nobody who arrives after the cancellation of an event is sold a ticket for
\* it, unless two publications of the event had raced.
NoSaleAfterCancellation == \A e \in lateSales : first[e] # {}

Undone(o) ==
    /\ organizer[o].status \in {"APPROVED", "REJECTED", "SUSPENDED"}
    /\ organizer'[o].status = "PENDING_REVIEW"

Edited(o) ==
    /\ organizer[o].status \in {"REJECTED", "SUSPENDED"}
    /\ organizer'[o].profile # organizer[o].profile

\* What the reviewers decided is undone only by a submission that raced with
\* the first one, and the profile of an organizer they turned down is changed
\* only by an update that was under way when they did.
DecisionsStand ==
    [][\A o \in Organizers :
          /\ Undone(o) => \E c \in first[o] \cap closing[o] : request'[c] # request[c]
          /\ Edited(o) => \E c \in closing[o] : request'[c] # request[c]]_catalogVars
=============================================================================
