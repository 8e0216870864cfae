---------------------- MODULE CatalogAndSupportProofs -----------------------
(***************************************************************************)
(* The two areas behind the permission guards, for any number of users,    *)
(* rows and concurrent calls: organizers and events (Catalog), and the     *)
(* lookups of the support staff (AdminSupport).                            *)
(***************************************************************************)
EXTENDS Catalog, AdminSupport, FiniteSetTheorems, TLAPS

-----------------------------------------------------------------------------
(* Catalog *)

EventOps == {"publish", "cancel", "updateEvent", "pay"}

OrganizerOps == {"submit", "updateOrganizer"}

\* A call that passed its check waits to write a row that exists; a creation
\* waits to insert the only row with its id.
CallsHaveRows ==
    /\ \A c \in Calls : request[c].op \in EventOps =>
          request[c].on \in Events /\ event[request[c].on].status # "ABSENT"
    /\ \A c \in Calls : request[c].op = "createEvent" =>
          event[request[c].on].status = "ABSENT"
    /\ \A c, d \in Calls :
          request[c].op = "createEvent" /\ request[d].op = "createEvent"
          /\ request[c].on = request[d].on => c = d

\* What a waiting call will write has its dates in order, and nobody else is
\* about to write other dates, unless two updates overlapped.
DatesWillFit ==
    /\ \A c \in Calls : request[c].op = "createEvent" =>
          ValidDateRange(request[c].dto.startsAt, request[c].dto.endsAt)
    /\ \A c \in Calls : request[c].op = "updateEvent" /\ request[c].on \notin overlapped =>
          LET next == Written(event[request[c].on], request[c].dto)
          IN ValidDateRange(next.startsAt, next.endsAt)
    /\ \A c, d \in Calls :
          request[c].op = "updateEvent" /\ request[d].op = "updateEvent"
          /\ request[c].on = request[d].on /\ request[c].on \notin overlapped => c = d

\* Whoever waits to publish an event that is no draft any more was waiting
\* when it left DRAFT.  Nobody waits to cancel a draft.
RacersAreKnown ==
    /\ \A c \in Calls : request[c].op = "publish" /\ event[request[c].on].status # "DRAFT" =>
          c \in first[request[c].on]
    /\ \A c \in Calls : request[c].op = "cancel" => event[request[c].on].status # "DRAFT"

\* A cancelled event is on sale again, or was sold to a latecomer, only where
\* publications raced.
CancellationsAreFinal ==
    /\ \A e \in Events : event[e].status = "DRAFT" => ~ event[e].cancelledAt
    /\ \A e \in Events : event[e].status = "PUBLISHED" /\ event[e].cancelledAt => first[e] # {}
    /\ \A c \in Calls : request[c].op = "pay" /\ request[c].late =>
          first[request[c].on] # {} /\ event[request[c].on].status # "DRAFT"
    /\ \A e \in lateSales : first[e] # {} /\ event[e].status \notin {"ABSENT", "DRAFT"}

\* Whoever waits to change an event that was cancelled was waiting then.
ClosersAreKnown ==
    \A c \in Calls :
        request[c].op \in EventOps /\ event[request[c].on].status = "CANCELLED" =>
            c \in closing[request[c].on]

\* The same for the calls on organizers: the row exists, and whoever comes
\* after the first submission or after a decision was waiting at that time.
OrganizerCallsAreKnown ==
    \A c \in Calls : request[c].op \in OrganizerOps =>
        LET o == request[c].on
        IN /\ o \in Organizers /\ organizer[o].status # "ABSENT"
           /\ request[c].op = "submit" /\ organizer[o].status # "DRAFT" => c \in first[o]
           /\ request[c].op = "submit"
              /\ organizer[o].status \in {"APPROVED", "REJECTED", "SUSPENDED"} =>
                  c \in closing[o]
           /\ request[c].op = "updateOrganizer"
              /\ organizer[o].status \in {"REJECTED", "SUSPENDED"} =>
                  c \in closing[o]

CatalogInv ==
    /\ CatalogTypeOK /\ request \in [Calls -> Requests]
    /\ CallsHaveRows /\ DatesWillFit /\ DatesInOrder
    /\ RacersAreKnown /\ CancellationsAreFinal /\ ClosersAreKnown
    /\ OrganizerCallsAreKnown

\* What a request of each operation carries.
LEMMA RequestFields ==
    ASSUME NEW r \in Requests
    PROVE  /\ r.op \in AllOps \cup {"idle", "done"}
           /\ r.op \in {"submit", "publish", "cancel"} => r.on \in Organizers \cup Events
           /\ r.op = "updateOrganizer" => r.on \in Organizers /\ r.profile \in Profiles
           /\ r.op = "createEvent" =>
                 r.on \in Events /\ r.organizer \in Organizers /\ r.dto \in Drafts
           /\ r.op = "updateEvent" => r.on \in Events /\ r.dto \in Edits
           /\ r.op = "pay" => r.on \in Events /\ r.late \in BOOLEAN
BY DEF Requests, AllOps

\* The columns of an organizer's row, and the rows the writes make of it.
LEMMA OrganizerRow ==
    ASSUME NEW row \in OrganizerRows
    PROVE  /\ row.status \in OrganizerStatuses
           /\ \A u \in Users, p \in Profiles :
                 [status |-> "DRAFT", owner |-> u, profile |-> p] \in OrganizerRows
           /\ row.status # "ABSENT" =>
                 /\ \A s \in OrganizerStatuses \ {"ABSENT"} :
                       /\ [row EXCEPT !.status = s] \in OrganizerRows
                       /\ [row EXCEPT !.status = s].status = s
                       /\ [row EXCEPT !.status = s].profile = row.profile
                 /\ \A p \in Profiles :
                       /\ [row EXCEPT !.profile = p] \in OrganizerRows
                       /\ [row EXCEPT !.profile = p].status = row.status
                       /\ [row EXCEPT !.profile = p].profile = p
<1>1. NoOrganizer.status = "ABSENT"
  BY DEF NoOrganizer
<1>2. row.status # "ABSENT" =>
        row \in [status: OrganizerStatuses \ {"ABSENT"}, owner: Users, profile: Profiles]
  BY <1>1 DEF OrganizerRows
<1>3. row.status \in OrganizerStatuses
  BY <1>1, <1>2 DEF OrganizerStatuses
<1> QED
  BY <1>2, <1>3 DEF OrganizerRows, OrganizerStatuses

\* The columns of an event's row.
LEMMA EventRow ==
    ASSUME NEW row \in EventRows
    PROVE  /\ row.status \in EventStatuses
           /\ row.status # "ABSENT" =>
                 row \in [status: EventStatuses \ {"ABSENT"}, organizer: Organizers,
                          startsAt: Dates, endsAt: Dates, complete: BOOLEAN,
                          cancelledAt: BOOLEAN, payable: BOOLEAN]
           /\ row.cancelledAt \in BOOLEAN
<1>1. NoEvent.status = "ABSENT" /\ NoEvent.cancelledAt = FALSE
  BY DEF NoEvent
<1> QED
  BY <1>1 DEF EventRows, EventStatuses

\* The row a creation inserts.
LEMMA InsertedEvent ==
    ASSUME NEW o \in Organizers, NEW dto \in Drafts
    PROVE  LET row == NewEvent(o, dto)
           IN /\ row \in EventRows
              /\ row.status = "DRAFT" /\ row.cancelledAt = FALSE
              /\ row.startsAt = dto.startsAt /\ row.endsAt = dto.endsAt
<1>1. dto \in [startsAt: Dates, endsAt: Dates, complete: BOOLEAN]
  BY CatalogAssumption
<1> QED
  BY <1>1 DEF NewEvent, NoEvent, EventRows, EventStatuses

\* The row an update makes: its dates are those of the request or the old ones.
LEMMA UpdatedEvent ==
    ASSUME NEW row \in EventRows, row.status # "ABSENT", NEW dto \in Edits
    PROVE  LET next == Written(row, dto)
           IN /\ next \in EventRows
              /\ next.status = row.status /\ next.cancelledAt = row.cancelledAt
              /\ next.startsAt = Given(dto.startsAt, row.startsAt)
              /\ next.endsAt = Given(dto.endsAt, row.endsAt)
<1>1. dto \in [startsAt: Dates \cup {Nothing}, endsAt: Dates \cup {Nothing},
               complete: BOOLEAN \cup {Nothing}]
  BY CatalogAssumption
<1>2. /\ Given(dto.startsAt, row.startsAt) \in Dates
      /\ Given(dto.endsAt, row.endsAt) \in Dates
      /\ Given(dto.complete, row.complete) \in BOOLEAN
  BY <1>1, EventRow DEF Given
<1> QED
  BY <1>2, EventRow DEF Written, EventRows

\* The rows that a publication, a cancellation and a payment setting make.
LEMMA MarkedEvent ==
    ASSUME NEW row \in EventRows, row.status # "ABSENT"
    PROVE  /\ LET next == [row EXCEPT !.status = "PUBLISHED"]
              IN /\ next \in EventRows
                 /\ next.status = "PUBLISHED" /\ next.cancelledAt = row.cancelledAt
                 /\ next.startsAt = row.startsAt /\ next.endsAt = row.endsAt
           /\ LET next == [row EXCEPT !.status = "CANCELLED", !.cancelledAt = TRUE]
              IN /\ next \in EventRows
                 /\ next.status = "CANCELLED" /\ next.cancelledAt = TRUE
                 /\ next.startsAt = row.startsAt /\ next.endsAt = row.endsAt
           /\ LET next == [row EXCEPT !.payable = TRUE]
              IN /\ next \in EventRows
                 /\ next.status = row.status /\ next.cancelledAt = row.cancelledAt
                 /\ next.startsAt = row.startsAt /\ next.endsAt = row.endsAt
BY EventRow DEF EventRows, EventStatuses

\* The tables start with the rows of earlier calls, and nobody waits.
LEMMA InitEstablishesCatalog == CatalogInit => CatalogInv
<1> SUFFICES ASSUME CatalogInit PROVE CatalogInv
  OBVIOUS
<1>1. organizer \in [Organizers -> OrganizerRows]
  BY DEF CatalogInit, ApprovedOrganizers, OrganizerRows, OrganizerStatuses
<1>2. ASSUME NEW e \in Events
      PROVE  /\ event[e] \in EventRows
             /\ event[e].status \in {"ABSENT", "DRAFT"} /\ ~ event[e].cancelledAt
             /\ event[e].status # "ABSENT" => event[e].startsAt < event[e].endsAt
  <2>1. CASE event[e] = NoEvent
    BY <2>1 DEF NoEvent, EventRows
  <2>2. CASE event[e] # NoEvent
    <3>1. PICK o \in Organizers, dto \in Drafts :
             event[e] = NewEvent(o, dto) /\ ValidDateRange(dto.startsAt, dto.endsAt)
      BY <2>2 DEF CatalogInit
    <3>2. dto.startsAt \in Nat /\ dto.endsAt \in Nat
      BY CatalogAssumption
    <3> QED
      BY <3>1, <3>2, InsertedEvent DEF ValidDateRange
  <2> QED
    BY <2>1, <2>2
<1>3. event \in [Events -> EventRows]
  BY <1>2 DEF CatalogInit
<1>4. request \in [Calls -> Requests] /\ \A c \in Calls : request[c].op = "idle"
  BY DEF CatalogInit, Requests
<1>5. CatalogTypeOK
  BY <1>1, <1>3, <1>4 DEF CatalogTypeOK, CatalogInit
<1>6. CallsHaveRows /\ DatesWillFit
  BY <1>4 DEF CallsHaveRows, DatesWillFit, EventOps
<1>7. RacersAreKnown /\ ClosersAreKnown /\ OrganizerCallsAreKnown
  BY <1>4 DEF RacersAreKnown, ClosersAreKnown, OrganizerCallsAreKnown, OrganizerOps, EventOps
<1>8. CancellationsAreFinal
  BY <1>2, <1>4 DEF CancellationsAreFinal, CatalogInit
<1>9. DatesInOrder
  BY <1>2 DEF DatesInOrder
<1> QED
  BY <1>4, <1>5, <1>6, <1>7, <1>8, <1>9 DEF CatalogInv

\* What the checks must have seen of the row a call goes on to write: it
\* exists, it is not closed to this call, a publication or a submission saw a
\* draft, and the dates to be written are in order.
Checked(r) ==
    /\ r.op \in OrganizerOps =>
          r.on \in Organizers /\ organizer[r.on].status \notin {"ABSENT", "REJECTED", "SUSPENDED"}
    /\ r.op = "submit" => organizer[r.on].status = "DRAFT"
    /\ r.op \in EventOps =>
          r.on \in Events /\ event[r.on].status \notin {"ABSENT", "CANCELLED"}
    /\ r.op = "publish" => event[r.on].status = "DRAFT"
    /\ r.op = "cancel" => event[r.on].status = "PUBLISHED"
    /\ r.op = "createEvent" =>
          /\ event[r.on].status = "ABSENT" /\ WaitingOn(r.on, {"createEvent"}) = {}
          /\ ValidDateRange(r.dto.startsAt, r.dto.endsAt)
    /\ r.op = "updateEvent" =>
          /\ LET next == Written(event[r.on], r.dto)
             IN ValidDateRange(next.startsAt, next.endsAt)
          /\ r.on \notin overlapped' => WaitingOn(r.on, {"updateEvent"}) = {}
    /\ r.op = "pay" =>
          event[r.on].status = "PUBLISHED" /\ r.late = event[r.on].cancelledAt

\* A call that passes such a check leaves the invariant as it was.
LEMMA PassingPreservesCatalog ==
    ASSUME CatalogInv, NEW c \in Calls, NEW r \in Requests, Pass(c, r), Checked(r),
           UNCHANGED <<catalogRows, first, closing, lateSales>>,
           overlapped' \in SUBSET Events, overlapped \subseteq overlapped'
    PROVE  CatalogInv'
<1>1. /\ request' \in [Calls -> Requests] /\ request'[c] = r
      /\ \A d \in Calls \ {c} : request'[d] = request[d]
      /\ request[c].op = "idle"
  BY DEF Pass, NextCall, CatalogInv
<1>2. organizer' = organizer /\ event' = event /\ first' = first /\ closing' = closing
      /\ lateSales' = lateSales
  BY DEF catalogRows
<1>3. CatalogTypeOK'
  BY <1>1, <1>2 DEF CatalogInv, CatalogTypeOK
<1>4. ASSUME NEW d \in Calls, NEW op, op \in {"createEvent", "updateEvent"},
             WaitingOn(r.on, {op}) = {}
      PROVE  request[d].op = op => request[d].on # r.on
  BY <1>4 DEF WaitingOn, Waiting
<1>5. CallsHaveRows'
  BY <1>1, <1>2, <1>4 DEF CatalogInv, CallsHaveRows, Checked, EventOps
<1>6. DatesWillFit'
  BY <1>1, <1>2, <1>4 DEF CatalogInv, DatesWillFit, Checked
<1>7. DatesInOrder'
  BY <1>2 DEF CatalogInv, DatesInOrder
<1>8. RacersAreKnown'
  BY <1>1, <1>2 DEF CatalogInv, RacersAreKnown, Checked
<1>9. CancellationsAreFinal'
  BY <1>1, <1>2 DEF CatalogInv, CancellationsAreFinal, Checked, EventOps
<1>10. ClosersAreKnown'
  BY <1>1, <1>2 DEF CatalogInv, ClosersAreKnown, Checked, EventOps
<1>11. OrganizerCallsAreKnown'
  BY <1>1, <1>2 DEF CatalogInv, OrganizerCallsAreKnown, Checked, OrganizerOps
<1> QED
  BY <1>1, <1>3, <1>5, <1>6, <1>7, <1>8, <1>9, <1>10, <1>11 DEF CatalogInv

\* Every operation that reads first makes such a check.
LEMMA ChecksPreserveCatalog ==
    ASSUME CatalogInv, NEW c \in Calls, NEW u \in Users,
           \/ \E o \in Organizers, p \in Profiles : UpdateOrganizer(c, u, o, p)
           \/ \E o \in Organizers : SubmitForReview(c, u, o)
           \/ \E o \in Organizers, e \in Events, dto \in Drafts :
                 CreateForOrganizer(c, u, o, e, dto)
           \/ \E e \in Events, dto \in Edits : UpdateOwned(c, u, e, dto)
           \/ \E e \in Events :
                 PublishOwned(c, u, e) \/ CancelOwned(c, u, e) \/ InitiatePayment(c, u, e)
    PROVE  CatalogInv'
<1>0. overlapped \in SUBSET Events
  BY DEF CatalogInv, CatalogTypeOK
<1>1. ASSUME NEW o \in Organizers, NEW p \in Profiles, UpdateOrganizer(c, u, o, p)
      PROVE  CatalogInv'
  <2> DEFINE r == [op |-> "updateOrganizer", on |-> o, profile |-> p]
  <2>1. r \in Requests /\ Checked(r)
    BY <1>1 DEF UpdateOrganizer, OwnsOrganizer, Requests, Checked, OrganizerOps, EventOps
  <2> HIDE DEF r
  <2> QED
    BY <1>0, <1>1, <2>1, PassingPreservesCatalog DEF UpdateOrganizer, historyVars, r
<1>2. ASSUME NEW o \in Organizers, SubmitForReview(c, u, o)
      PROVE  CatalogInv'
  <2> DEFINE r == [op |-> "submit", on |-> o]
  <2>1. r \in Requests /\ Checked(r)
    BY <1>2 DEF SubmitForReview, OwnsOrganizer, Requests, Checked, OrganizerOps, EventOps
  <2> HIDE DEF r
  <2> QED
    BY <1>0, <1>2, <2>1, PassingPreservesCatalog DEF SubmitForReview, historyVars, r
<1>3. ASSUME NEW o \in Organizers, NEW e \in Events, NEW dto \in Drafts,
             CreateForOrganizer(c, u, o, e, dto)
      PROVE  CatalogInv'
  <2> DEFINE r == [op |-> "createEvent", on |-> e, organizer |-> o, dto |-> dto]
  <2>1. r \in Requests /\ Checked(r)
    BY <1>3 DEF CreateForOrganizer, Requests, Checked, OrganizerOps, EventOps
  <2> HIDE DEF r
  <2> QED
    BY <1>0, <1>3, <2>1, PassingPreservesCatalog DEF CreateForOrganizer, historyVars, r
<1>4. ASSUME NEW e \in Events, NEW dto \in Edits, UpdateOwned(c, u, e, dto)
      PROVE  CatalogInv'
  <2> DEFINE r == [op |-> "updateEvent", on |-> e, dto |-> dto]
  <2>1. r \in Requests /\ Checked(r)
    BY <1>4 DEF UpdateOwned, OwnsEvent, Requests, Checked, OrganizerOps, EventOps
  <2>2. overlapped' \in SUBSET Events /\ overlapped \subseteq overlapped'
    BY <1>0, <1>4 DEF UpdateOwned
  <2> HIDE DEF r
  <2> QED
    BY <1>4, <2>1, <2>2, PassingPreservesCatalog DEF UpdateOwned, r
<1>5. ASSUME NEW e \in Events, PublishOwned(c, u, e)
      PROVE  CatalogInv'
  <2> DEFINE r == [op |-> "publish", on |-> e]
  <2>1. r \in Requests /\ Checked(r)
    BY <1>5 DEF PublishOwned, Requests, Checked, OrganizerOps, EventOps
  <2> HIDE DEF r
  <2> QED
    BY <1>0, <1>5, <2>1, PassingPreservesCatalog DEF PublishOwned, historyVars, r
<1>6. ASSUME NEW e \in Events, CancelOwned(c, u, e)
      PROVE  CatalogInv'
  <2> DEFINE r == [op |-> "cancel", on |-> e]
  <2>1. r \in Requests /\ Checked(r)
    BY <1>6 DEF CancelOwned, Requests, Checked, OrganizerOps, EventOps
  <2> HIDE DEF r
  <2> QED
    BY <1>0, <1>6, <2>1, PassingPreservesCatalog DEF CancelOwned, historyVars, r
<1>7. ASSUME NEW e \in Events, InitiatePayment(c, u, e)
      PROVE  CatalogInv'
  <2> DEFINE r == [op |-> "pay", on |-> e, late |-> event[e].cancelledAt]
  <2>1. event[e].cancelledAt \in BOOLEAN
    BY EventRow DEF CatalogInv, CatalogTypeOK
  <2>2. r \in Requests
    BY <2>1 DEF Requests
  <2>3. Checked(r)
    BY <1>7 DEF InitiatePayment, EventEligible, Checked, OrganizerOps, EventOps
  <2> HIDE DEF r
  <2> QED
    BY <1>0, <1>7, <2>2, <2>3, PassingPreservesCatalog DEF InitiatePayment, historyVars, r
<1> QED
  BY <1>1, <1>2, <1>3, <1>4, <1>5, <1>6, <1>7

\* A call that ends takes nothing with it.
LEMMA FinishedCall ==
    ASSUME CatalogInv, NEW c \in Calls, Finish(c)
    PROVE  /\ request' \in [Calls -> Requests] /\ request'[c].op = "done"
           /\ \A d \in Calls \ {c} : request'[d] = request[d]
BY DEF CatalogInv, Finish, Requests

\* A step that only ends calls and leaves the events alone.
LEMMA EventsUndisturbed ==
    ASSUME CatalogInv, request' \in [Calls -> Requests],
           \A c \in Calls : request'[c] = request[c] \/ request'[c].op = "done",
           \A e \in Events : first'[e] = first[e] /\ closing'[e] = closing[e],
           UNCHANGED <<event, overlapped, lateSales>>
    PROVE  /\ CallsHaveRows' /\ DatesWillFit' /\ DatesInOrder'
           /\ RacersAreKnown' /\ CancellationsAreFinal' /\ ClosersAreKnown'
<1>1. /\ event' = event /\ overlapped' = overlapped /\ lateSales' = lateSales
      /\ lateSales \subseteq Events
  BY DEF CatalogInv, CatalogTypeOK
<1>2. \A c \in Calls : request[c].op \in EventOps => request[c].on \in Events
  BY DEF CatalogInv, CallsHaveRows
<1>3. \A c \in Calls : request'[c].op # "done" => request'[c] = request[c]
  OBVIOUS
<1>4. CallsHaveRows'
  BY <1>1, <1>3 DEF CatalogInv, CallsHaveRows, EventOps
<1>5. DatesWillFit' /\ DatesInOrder'
  BY <1>1, <1>3 DEF CatalogInv, DatesWillFit, DatesInOrder
<1>6. RacersAreKnown'
  BY <1>1, <1>2, <1>3 DEF CatalogInv, RacersAreKnown, EventOps
<1>7. CancellationsAreFinal'
  BY <1>1, <1>2, <1>3 DEF CatalogInv, CancellationsAreFinal, EventOps
<1>8. ClosersAreKnown'
  BY <1>1, <1>2, <1>3 DEF CatalogInv, ClosersAreKnown, EventOps
<1> QED
  BY <1>4, <1>5, <1>6, <1>7, <1>8

\* A step that only ends calls and leaves the organizers alone.
LEMMA OrganizersUndisturbed ==
    ASSUME CatalogInv,
           \A c \in Calls : request'[c] = request[c] \/ request'[c].op = "done",
           \A o \in Organizers : first'[o] = first[o] /\ closing'[o] = closing[o],
           UNCHANGED organizer
    PROVE  OrganizerCallsAreKnown'
BY DEF CatalogInv, OrganizerCallsAreKnown, OrganizerOps

\* Every write to an organizer.
LEMMA OrganizerWritesPreserveCatalog ==
    ASSUME CatalogInv,
           \/ \E c \in Calls, u \in Users, o \in Organizers, p \in Profiles :
                 CreateOrganizer(c, u, o, p)
           \/ \E c \in Calls : SaveOrganizer(c) \/ SaveSubmission(c)
           \/ \E o \in Organizers, s \in OrganizerStatuses : Review(o, s)
    PROVE  CatalogInv'
<1>0. /\ organizer \in [Organizers -> OrganizerRows] /\ request \in [Calls -> Requests]
      /\ event \in [Events -> EventRows]
      /\ first \in [Organizers \cup Events -> SUBSET Calls]
      /\ closing \in [Organizers \cup Events -> SUBSET Calls]
      /\ overlapped \in SUBSET Events /\ lateSales \in SUBSET Events
  BY DEF CatalogInv, CatalogTypeOK
<1>1. ASSUME NEW c \in Calls, NEW u \in Users, NEW o \in Organizers, NEW p \in Profiles,
             CreateOrganizer(c, u, o, p)
      PROVE  CatalogInv'
  <2>1. /\ organizer' \in [Organizers -> OrganizerRows]
        /\ \A x \in Organizers : organizer[x].status # "ABSENT" => organizer'[x] = organizer[x]
    BY <1>0, <1>1, OrganizerRow DEF CreateOrganizer
  <2>2. UNCHANGED <<event, first, closing, overlapped, lateSales>>
    BY <1>1 DEF CreateOrganizer, historyVars
  <2>3. /\ request' \in [Calls -> Requests]
        /\ \A d \in Calls : request'[d] = request[d] \/ request'[d].op = "done"
    BY <1>1, FinishedCall DEF CreateOrganizer
  <2>4. OrganizerCallsAreKnown'
    BY <2>1, <2>2, <2>3 DEF CatalogInv, OrganizerCallsAreKnown, OrganizerOps
  <2> QED
    BY <1>0, <2>1, <2>2, <2>3, <2>4, EventsUndisturbed DEF CatalogInv, CatalogTypeOK
<1>2. ASSUME NEW c \in Calls, SaveOrganizer(c)
      PROVE  CatalogInv'
  <2>0. request[c].on \in Organizers /\ organizer[request[c].on].status # "ABSENT"
        /\ request[c].profile \in Profiles
    BY <1>0, <1>2, RequestFields
       DEF SaveOrganizer, CatalogInv, OrganizerCallsAreKnown, OrganizerOps
  <2>1. /\ organizer' \in [Organizers -> OrganizerRows]
        /\ \A x \in Organizers : organizer'[x].status = organizer[x].status
    BY <1>0, <1>2, <2>0, OrganizerRow DEF SaveOrganizer
  <2>2. UNCHANGED <<event, first, closing, overlapped, lateSales>>
    BY <1>2 DEF SaveOrganizer, historyVars
  <2>3. /\ request' \in [Calls -> Requests]
        /\ \A d \in Calls : request'[d] = request[d] \/ request'[d].op = "done"
    BY <1>2, FinishedCall DEF SaveOrganizer
  <2>4. OrganizerCallsAreKnown'
    BY <2>1, <2>2, <2>3 DEF CatalogInv, OrganizerCallsAreKnown, OrganizerOps
  <2> QED
    BY <1>0, <2>1, <2>2, <2>3, <2>4, EventsUndisturbed DEF CatalogInv, CatalogTypeOK
<1>3. ASSUME NEW c \in Calls, SaveSubmission(c)
      PROVE  CatalogInv'
  <2> DEFINE o == request[c].on
  <2>0. o \in Organizers /\ organizer[o].status # "ABSENT" /\ o \notin Events
    BY <1>3, CatalogAssumption
       DEF SaveSubmission, CatalogInv, OrganizerCallsAreKnown, OrganizerOps
  <2>1. /\ organizer' \in [Organizers -> OrganizerRows]
        /\ organizer'[o].status = "PENDING_REVIEW"
        /\ \A x \in Organizers \ {o} : organizer'[x] = organizer[x]
    <3>1. /\ organizer[o] \in OrganizerRows
          /\ "PENDING_REVIEW" \in OrganizerStatuses \ {"ABSENT"}
      BY <1>0, <2>0 DEF OrganizerStatuses
    <3>2. /\ [organizer[o] EXCEPT !.status = "PENDING_REVIEW"] \in OrganizerRows
          /\ [organizer[o] EXCEPT !.status = "PENDING_REVIEW"].status = "PENDING_REVIEW"
      BY <2>0, <3>1, OrganizerRow
    <3> QED
      BY <1>0, <1>3, <2>0, <3>2 DEF SaveSubmission
  <2>2. UNCHANGED <<event, closing, overlapped, lateSales>>
    BY <1>3 DEF SaveSubmission
  <2>3. /\ request' \in [Calls -> Requests] /\ request'[c].op = "done"
        /\ \A d \in Calls \ {c} : request'[d] = request[d]
    BY <1>3, FinishedCall DEF SaveSubmission
  <2>4. /\ first' \in [Organizers \cup Events -> SUBSET Calls]
        /\ \A x \in (Organizers \cup Events) \ {o} : first'[x] = first[x]
    BY <1>0, <1>3, <2>0 DEF SaveSubmission, WaitingOn
  <2>5. ASSUME NEW d \in Calls \ {c}, request[d].op = "submit", request[d].on = o
        PROVE  d \in first'[o]
    <3>1. CASE organizer[o].status = "DRAFT"
      BY <1>0, <1>3, <2>0, <2>5, <3>1 DEF SaveSubmission, WaitingOn, Waiting
    <3>2. CASE organizer[o].status # "DRAFT"
      BY <1>3, <2>5, <3>2 DEF SaveSubmission, CatalogInv, OrganizerCallsAreKnown, OrganizerOps
    <3> QED
      BY <3>1, <3>2
  <2> HIDE DEF o
  <2>6. OrganizerCallsAreKnown'
    BY <2>0, <2>1, <2>2, <2>3, <2>4, <2>5 DEF CatalogInv, OrganizerCallsAreKnown, OrganizerOps
  <2>7. \A e \in Events : first'[e] = first[e] /\ closing'[e] = closing[e]
    BY <2>0, <2>2, <2>4
  <2> QED
    BY <1>0, <2>1, <2>2, <2>3, <2>4, <2>6, <2>7, EventsUndisturbed
       DEF CatalogInv, CatalogTypeOK
<1>4. ASSUME NEW o \in Organizers, NEW s \in OrganizerStatuses, Review(o, s)
      PROVE  CatalogInv'
  <2>0. o \notin Events
    BY CatalogAssumption
  <2>1. /\ organizer[o].status \notin {"ABSENT", "DRAFT"} /\ s # "ABSENT"
        /\ organizer' \in [Organizers -> OrganizerRows]
        /\ \A x \in Organizers \ {o} : organizer'[x] = organizer[x]
    BY <1>0, <1>4, OrganizerRow DEF Review
  <2>2. organizer'[o].status # "ABSENT"
    BY <1>0, <1>4, <2>1, OrganizerRow DEF Review
  <2>3. UNCHANGED <<event, request, first, overlapped, lateSales>>
    BY <1>4 DEF Review
  <2>4. /\ closing' \in [Organizers \cup Events -> SUBSET Calls]
        /\ \A x \in (Organizers \cup Events) \ {o} : closing'[x] = closing[x]
        /\ closing'[o] = WaitingOn(o, AllOps)
    BY <1>0, <1>4 DEF Review, WaitingOn
  <2>5. ASSUME NEW d \in Calls, request[d].op \in OrganizerOps, request[d].on = o
        PROVE  d \in closing'[o]
    BY <2>4, <2>5 DEF WaitingOn, Waiting, AllOps, OrganizerOps
  <2>6. OrganizerCallsAreKnown'
    BY <2>1, <2>2, <2>3, <2>4, <2>5 DEF CatalogInv, OrganizerCallsAreKnown
  <2>7. \A e \in Events : first'[e] = first[e] /\ closing'[e] = closing[e]
    BY <2>0, <2>3, <2>4
  <2> QED
    BY <1>0, <2>1, <2>3, <2>4, <2>6, <2>7, EventsUndisturbed DEF CatalogInv, CatalogTypeOK
<1> QED
  BY <1>1, <1>2, <1>3, <1>4

\* A write that leaves the dates of the events alone leaves what the waiting
\* updates will write in order.
LEMMA KeptDatesStillFit ==
    ASSUME CatalogInv, event' \in [Events -> EventRows],
           \A c \in Calls : request'[c] = request[c] \/ request'[c].op = "done",
           \A e \in Events :
               event[e].status # "ABSENT" =>
                   /\ event'[e].status # "ABSENT"
                   /\ event'[e].startsAt = event[e].startsAt
                   /\ event'[e].endsAt = event[e].endsAt,
           \A e \in Events : event[e].status = "ABSENT" => event'[e].status = "ABSENT",
           UNCHANGED overlapped
    PROVE  DatesWillFit' /\ DatesInOrder'
<1>1. ASSUME NEW c \in Calls, request[c].op = "updateEvent"
      PROVE  LET before == Written(event[request[c].on], request[c].dto)
                 next == Written(event'[request[c].on], request[c].dto)
             IN next.startsAt = before.startsAt /\ next.endsAt = before.endsAt
  <2>1. /\ request[c].on \in Events /\ request[c].dto \in Edits
        /\ event[request[c].on] \in EventRows /\ event[request[c].on].status # "ABSENT"
    BY <1>1, RequestFields DEF CatalogInv, CatalogTypeOK, CallsHaveRows, EventOps
  <2> QED
    BY <2>1, UpdatedEvent
<1>2. \A c \in Calls : request'[c].op # "done" => request'[c] = request[c]
  OBVIOUS
<1>3. DatesWillFit'
  BY <1>1, <1>2 DEF CatalogInv, DatesWillFit
<1>4. DatesInOrder'
  BY DEF CatalogInv, DatesInOrder
<1> QED
  BY <1>3, <1>4

\* Every write to an event.
LEMMA EventWritesPreserveCatalog ==
    ASSUME CatalogInv,
           \/ \E c \in Calls : \/ InsertEvent(c) \/ SaveEvent(c)
                               \/ SavePublication(c) \/ SaveCancellation(c)
           \/ \E e \in Events : ConfigurePayment(e)
    PROVE  CatalogInv'
<1>0. /\ organizer \in [Organizers -> OrganizerRows] /\ request \in [Calls -> Requests]
      /\ event \in [Events -> EventRows]
      /\ first \in [Organizers \cup Events -> SUBSET Calls]
      /\ closing \in [Organizers \cup Events -> SUBSET Calls]
      /\ overlapped \in SUBSET Events /\ lateSales \in SUBSET Events
  BY DEF CatalogInv, CatalogTypeOK
<1>1. ASSUME NEW c \in Calls, InsertEvent(c)
      PROVE  CatalogInv'
  <2> DEFINE e == request[c].on
             dto == request[c].dto
  <2>1. /\ e \in Events /\ request[c].organizer \in Organizers /\ dto \in Drafts
        /\ event[e].status = "ABSENT" /\ ValidDateRange(dto.startsAt, dto.endsAt)
    BY <1>0, <1>1, RequestFields DEF InsertEvent, CatalogInv, CallsHaveRows, DatesWillFit
  <2>2. dto.startsAt \in Nat /\ dto.endsAt \in Nat
    BY <2>1, CatalogAssumption
  <2>3. /\ event' \in [Events -> EventRows]
        /\ event'[e].status = "DRAFT" /\ event'[e].cancelledAt = FALSE
        /\ event'[e].startsAt < event'[e].endsAt
        /\ \A x \in Events \ {e} : event'[x] = event[x]
    BY <1>0, <1>1, <2>1, <2>2, InsertedEvent DEF InsertEvent, ValidDateRange
  <2>4. /\ request' \in [Calls -> Requests] /\ request'[c].op = "done"
        /\ \A d \in Calls \ {c} : request'[d] = request[d]
    BY <1>1, FinishedCall DEF InsertEvent
  <2>5. UNCHANGED <<organizer, first, closing, overlapped, lateSales>>
    BY <1>1 DEF InsertEvent, historyVars
  <2>6. /\ \A d \in Calls : request[d].op \in EventOps =>
              request[d].on \in Events /\ request[d].on # e
        /\ \A d \in Calls \ {c} : request[d].op = "createEvent" =>
              request[d].on \in Events /\ request[d].on # e
    BY <1>0, <1>1, <2>1, RequestFields DEF InsertEvent, CatalogInv, CallsHaveRows
  <2> HIDE DEF e, dto
  <2>7. CallsHaveRows'
    BY <2>3, <2>4, <2>6 DEF CatalogInv, CallsHaveRows, EventOps
  <2>8. DatesWillFit'
    BY <2>3, <2>4, <2>5, <2>6 DEF CatalogInv, DatesWillFit, EventOps
  <2>9. DatesInOrder'
    BY <2>3, <2>5 DEF CatalogInv, DatesInOrder
  <2>10. RacersAreKnown'
    BY <2>3, <2>4, <2>5, <2>6 DEF CatalogInv, RacersAreKnown, EventOps
  <2>11. CancellationsAreFinal'
    BY <1>0, <2>1, <2>3, <2>4, <2>5, <2>6 DEF CatalogInv, CancellationsAreFinal, EventOps
  <2>12. ClosersAreKnown'
    BY <2>3, <2>4, <2>5, <2>6 DEF CatalogInv, ClosersAreKnown, EventOps
  <2> QED
    BY <1>0, <2>3, <2>4, <2>5, <2>7, <2>8, <2>9, <2>10, <2>11, <2>12, OrganizersUndisturbed
       DEF CatalogInv, CatalogTypeOK
<1>2. ASSUME NEW c \in Calls, SaveEvent(c)
      PROVE  CatalogInv'
  <2> DEFINE e == request[c].on
             dto == request[c].dto
  <2>1. e \in Events /\ dto \in Edits /\ event[e].status # "ABSENT"
    BY <1>0, <1>2, RequestFields DEF SaveEvent, CatalogInv, CallsHaveRows, EventOps
  <2>2. /\ event' \in [Events -> EventRows]
        /\ \A x \in Events : /\ event'[x].status = event[x].status
                             /\ event'[x].cancelledAt = event[x].cancelledAt
        /\ \A x \in Events \ {e} : event'[x] = event[x]
        /\ event'[e] = Written(event[e], dto)
    BY <1>0, <1>2, <2>1, UpdatedEvent DEF SaveEvent
  <2>3. /\ request' \in [Calls -> Requests] /\ request'[c].op = "done"
        /\ \A d \in Calls \ {c} : request'[d] = request[d]
    BY <1>2, FinishedCall DEF SaveEvent
  <2>4. UNCHANGED <<organizer, first, closing, overlapped, lateSales>>
    BY <1>2 DEF SaveEvent, historyVars
  <2>5. e \notin overlapped => event'[e].startsAt < event'[e].endsAt
    <3>0. event'[e] \in EventRows /\ event'[e].status # "ABSENT"
      BY <2>1, <2>2
    <3>1. event'[e].startsAt \in Nat /\ event'[e].endsAt \in Nat
      <4>1. event'[e].startsAt \in Dates /\ event'[e].endsAt \in Dates
        BY <3>0, EventRow
      <4> QED
        BY <4>1, CatalogAssumption
    <3> QED
      BY <1>2, <2>2, <3>1 DEF SaveEvent, CatalogInv, DatesWillFit, ValidDateRange
  <2>6. /\ \A d \in Calls : request[d].op \in EventOps => request[d].on \in Events
        /\ \A d \in Calls : request[d].op = "createEvent" => request[d].on \in Events
    BY <1>0, RequestFields DEF CatalogInv, CallsHaveRows
  <2>7. \A d \in Calls \ {c} :
           request[d].op = "updateEvent" /\ request[d].on = e => e \in overlapped
    BY <1>2 DEF SaveEvent, CatalogInv, DatesWillFit
  <2> HIDE DEF e, dto
  <2>8. CallsHaveRows'
    BY <2>2, <2>3, <2>6 DEF CatalogInv, CallsHaveRows, EventOps
  <2>9. DatesWillFit'
    BY <2>2, <2>3, <2>4, <2>6, <2>7 DEF CatalogInv, DatesWillFit, EventOps
  <2>10. DatesInOrder'
    BY <2>2, <2>4, <2>5 DEF CatalogInv, DatesInOrder
  <2>11. RacersAreKnown'
    BY <2>2, <2>3, <2>4, <2>6 DEF CatalogInv, RacersAreKnown, EventOps
  <2>12. CancellationsAreFinal'
    BY <1>0, <2>2, <2>3, <2>4, <2>6 DEF CatalogInv, CancellationsAreFinal, EventOps
  <2>13. ClosersAreKnown'
    BY <2>2, <2>3, <2>4, <2>6 DEF CatalogInv, ClosersAreKnown, EventOps
  <2> QED
    BY <1>0, <2>2, <2>3, <2>4, <2>8, <2>9, <2>10, <2>11, <2>12, <2>13, OrganizersUndisturbed
       DEF CatalogInv, CatalogTypeOK
<1>3. ASSUME NEW c \in Calls, SavePublication(c)
      PROVE  CatalogInv'
  <2> DEFINE e == request[c].on
  <2>1. e \in Events /\ event[e].status # "ABSENT" /\ e \notin Organizers
    BY <1>3, CatalogAssumption DEF SavePublication, CatalogInv, CallsHaveRows, EventOps
  <2>2. /\ event' \in [Events -> EventRows]
        /\ event'[e].status = "PUBLISHED" /\ event'[e].cancelledAt = event[e].cancelledAt
        /\ event'[e].startsAt = event[e].startsAt /\ event'[e].endsAt = event[e].endsAt
        /\ \A x \in Events \ {e} : event'[x] = event[x]
    BY <1>0, <1>3, <2>1, MarkedEvent DEF SavePublication
  <2>3. /\ request' \in [Calls -> Requests] /\ request'[c].op = "done"
        /\ \A d \in Calls \ {c} : request'[d] = request[d]
    BY <1>3, FinishedCall DEF SavePublication
  <2>4. UNCHANGED <<organizer, closing, overlapped, lateSales>>
    BY <1>3 DEF SavePublication
  <2>5. /\ first' \in [Organizers \cup Events -> SUBSET Calls]
        /\ \A x \in (Organizers \cup Events) \ {e} : first'[x] = first[x]
        /\ event[e].status # "DRAFT" => first'[e] = first[e] /\ c \in first[e]
    BY <1>0, <1>3, <2>1 DEF SavePublication, WaitingOn, CatalogInv, RacersAreKnown
  <2>6. ASSUME NEW d \in Calls \ {c}, request[d].op = "publish", request[d].on = e
        PROVE  d \in first'[e]
    <3>1. CASE event[e].status = "DRAFT"
      BY <1>0, <1>3, <2>1, <2>6, <3>1 DEF SavePublication, WaitingOn, Waiting
    <3>2. CASE event[e].status # "DRAFT"
      BY <2>5, <2>6, <3>2 DEF CatalogInv, RacersAreKnown
    <3> QED
      BY <3>1, <3>2
  <2>7. /\ \A d \in Calls : request[d].op \in EventOps => request[d].on \in Events
        /\ \A d \in Calls : request[d].op = "createEvent" => request[d].on \in Events
    BY <1>0, RequestFields DEF CatalogInv, CallsHaveRows
  <2> HIDE DEF e
  <2>8. CallsHaveRows'
    BY <2>1, <2>2, <2>3, <2>7 DEF CatalogInv, CallsHaveRows, EventOps
  <2>9. DatesWillFit' /\ DatesInOrder'
    BY <2>1, <2>2, <2>3, <2>4, KeptDatesStillFit
  <2>10. RacersAreKnown'
    BY <2>2, <2>3, <2>5, <2>6, <2>7 DEF CatalogInv, RacersAreKnown, EventOps
  <2>11. CancellationsAreFinal'
    BY <1>0, <2>1, <2>2, <2>3, <2>4, <2>5, <2>7 DEF CatalogInv, CancellationsAreFinal, EventOps
  <2>12. ClosersAreKnown'
    BY <2>2, <2>3, <2>4, <2>7 DEF CatalogInv, ClosersAreKnown, EventOps
  <2>13. OrganizerCallsAreKnown'
    BY <2>1, <2>3, <2>4, <2>5, OrganizersUndisturbed
  <2> QED
    BY <1>0, <2>2, <2>3, <2>4, <2>5, <2>8, <2>9, <2>10, <2>11, <2>12, <2>13
       DEF CatalogInv, CatalogTypeOK
<1>4. ASSUME NEW c \in Calls, SaveCancellation(c)
      PROVE  CatalogInv'
  <2> DEFINE e == request[c].on
  <2>1. /\ e \in Events /\ event[e].status \notin {"ABSENT", "DRAFT"} /\ e \notin Organizers
    BY <1>4, CatalogAssumption
       DEF SaveCancellation, CatalogInv, CallsHaveRows, RacersAreKnown, EventOps
  <2>2. /\ event' \in [Events -> EventRows]
        /\ event'[e].status = "CANCELLED"
        /\ event'[e].startsAt = event[e].startsAt /\ event'[e].endsAt = event[e].endsAt
        /\ \A x \in Events \ {e} : event'[x] = event[x]
    <3>1. /\ event'[e] = [event[e] EXCEPT !.status = "CANCELLED", !.cancelledAt = TRUE]
          /\ \A x \in Events \ {e} : event'[x] = event[x]
          /\ DOMAIN event' = Events
          /\ event' = [x \in Events |-> event'[x]]
      BY <1>0, <1>4, <2>1 DEF SaveCancellation
    <3>2. event[e] \in EventRows /\ event[e].status # "ABSENT"
      BY <1>0, <2>1
    <3> HIDE DEF e
    <3>3. LET next == [event[e] EXCEPT !.status = "CANCELLED", !.cancelledAt = TRUE]
          IN /\ next \in EventRows /\ next.status = "CANCELLED"
             /\ next.startsAt = event[e].startsAt /\ next.endsAt = event[e].endsAt
      BY <3>2, MarkedEvent
    <3> QED
      BY <1>0, <2>1, <3>1, <3>3
  <2>3. /\ request' \in [Calls -> Requests] /\ request'[c].op = "done"
        /\ \A d \in Calls \ {c} : request'[d] = request[d]
    BY <1>4, FinishedCall DEF SaveCancellation
  <2>4. UNCHANGED <<organizer, first, overlapped, lateSales>>
    BY <1>4 DEF SaveCancellation
  <2>5. /\ closing' \in [Organizers \cup Events -> SUBSET Calls]
        /\ \A x \in (Organizers \cup Events) \ {e} : closing'[x] = closing[x]
        /\ closing'[e] = WaitingOn(e, AllOps) \ {c}
    BY <1>0, <1>4, <2>1 DEF SaveCancellation, WaitingOn
  <2>6. ASSUME NEW d \in Calls \ {c}, request[d].op \in EventOps, request[d].on = e
        PROVE  d \in closing'[e]
    BY <2>5, <2>6 DEF WaitingOn, Waiting, AllOps, EventOps
  <2>7. /\ \A d \in Calls : request[d].op \in EventOps => request[d].on \in Events
        /\ \A d \in Calls : request[d].op = "createEvent" => request[d].on \in Events
    BY <1>0, RequestFields DEF CatalogInv, CallsHaveRows
  <2> HIDE DEF e
  <2>8. CallsHaveRows'
    BY <2>1, <2>2, <2>3, <2>7 DEF CatalogInv, CallsHaveRows, EventOps
  <2>9. DatesWillFit' /\ DatesInOrder'
    BY <2>1, <2>2, <2>3, <2>4, KeptDatesStillFit
  <2>10. RacersAreKnown'
    BY <2>1, <2>2, <2>3, <2>4, <2>7 DEF CatalogInv, RacersAreKnown, EventOps
  <2>11. CancellationsAreFinal'
    BY <1>0, <2>1, <2>2, <2>3, <2>4, <2>7 DEF CatalogInv, CancellationsAreFinal, EventOps
  <2>12. ClosersAreKnown'
    BY <2>2, <2>3, <2>5, <2>6, <2>7 DEF CatalogInv, ClosersAreKnown, EventOps
  <2>13. OrganizerCallsAreKnown'
    BY <2>1, <2>3, <2>4, <2>5, OrganizersUndisturbed
  <2> QED
    BY <1>0, <2>2, <2>3, <2>4, <2>5, <2>8, <2>9, <2>10, <2>11, <2>12, <2>13
       DEF CatalogInv, CatalogTypeOK
<1>5. ASSUME NEW e \in Events, ConfigurePayment(e)
      PROVE  CatalogInv'
  <2>1. /\ event' \in [Events -> EventRows]
        /\ \A x \in Events : /\ event'[x].status = event[x].status
                             /\ event'[x].cancelledAt = event[x].cancelledAt
                             /\ event'[x].startsAt = event[x].startsAt
                             /\ event'[x].endsAt = event[x].endsAt
    <3>1. /\ event[e] \in EventRows /\ event[e].status # "ABSENT"
          /\ event' = [event EXCEPT ![e] = [event[e] EXCEPT !.payable = TRUE]]
      BY <1>0, <1>5 DEF ConfigurePayment
    <3>2. LET next == [event[e] EXCEPT !.payable = TRUE]
          IN /\ next \in EventRows
             /\ next.status = event[e].status /\ next.cancelledAt = event[e].cancelledAt
             /\ next.startsAt = event[e].startsAt /\ next.endsAt = event[e].endsAt
      BY <3>1, MarkedEvent
    <3> QED
      BY <1>0, <3>1, <3>2
  <2>2. UNCHANGED <<organizer, request, first, closing, overlapped, lateSales>>
    BY <1>5 DEF ConfigurePayment, historyVars
  <2>3. /\ \A d \in Calls : request[d].op \in EventOps => request[d].on \in Events
        /\ \A d \in Calls : request[d].op = "createEvent" => request[d].on \in Events
    BY <1>0, RequestFields DEF CatalogInv, CallsHaveRows
  <2>4. CallsHaveRows'
    BY <2>1, <2>2, <2>3 DEF CatalogInv, CallsHaveRows
  <2>5. DatesWillFit' /\ DatesInOrder'
    BY <2>1, <2>2, KeptDatesStillFit
  <2>6. RacersAreKnown'
    BY <2>1, <2>2, <2>3 DEF CatalogInv, RacersAreKnown, EventOps
  <2>7. CancellationsAreFinal'
    BY <1>0, <2>1, <2>2, <2>3 DEF CatalogInv, CancellationsAreFinal, EventOps
  <2>8. ClosersAreKnown'
    BY <2>1, <2>2, <2>3 DEF CatalogInv, ClosersAreKnown
  <2>9. OrganizerCallsAreKnown'
    BY <2>2, OrganizersUndisturbed
  <2> QED
    BY <1>0, <2>1, <2>2, <2>4, <2>5, <2>6, <2>7, <2>8, <2>9 DEF CatalogInv, CatalogTypeOK
<1> QED
  BY <1>1, <1>2, <1>3, <1>4, <1>5

\* A payment that is stored, and a call that dies.
LEMMA EndingsPreserveCatalog ==
    ASSUME CatalogInv, NEW c \in Calls, StoreIntent(c) \/ AbandonCall(c)
    PROVE  CatalogInv'
<1>0. /\ organizer \in [Organizers -> OrganizerRows] /\ request \in [Calls -> Requests]
      /\ event \in [Events -> EventRows]
      /\ first \in [Organizers \cup Events -> SUBSET Calls]
      /\ closing \in [Organizers \cup Events -> SUBSET Calls]
      /\ overlapped \in SUBSET Events /\ lateSales \in SUBSET Events
  BY DEF CatalogInv, CatalogTypeOK
<1>1. /\ request' \in [Calls -> Requests] /\ request'[c].op = "done"
      /\ \A d \in Calls \ {c} : request'[d] = request[d]
  BY FinishedCall DEF StoreIntent, AbandonCall
<1>2. UNCHANGED <<organizer, event, first, closing, overlapped>>
  BY DEF StoreIntent, AbandonCall, catalogRows, historyVars
<1>3. /\ lateSales' \in SUBSET Events
      /\ \A e \in lateSales' : first[e] # {} /\ event[e].status \notin {"ABSENT", "DRAFT"}
  <2>1. CASE StoreIntent(c)
    BY <1>0, <2>1 DEF StoreIntent, CatalogInv, CallsHaveRows, CancellationsAreFinal, EventOps
  <2>2. CASE AbandonCall(c)
    BY <1>0, <2>2 DEF AbandonCall, historyVars, CatalogInv, CancellationsAreFinal
  <2> QED
    BY <2>1, <2>2
<1>4. \A d \in Calls : request'[d].op # "done" => request'[d] = request[d]
  BY <1>1
<1>5. CallsHaveRows'
  BY <1>2, <1>4 DEF CatalogInv, CallsHaveRows, EventOps
<1>6. DatesWillFit' /\ DatesInOrder'
  BY <1>0, <1>1, <1>2, KeptDatesStillFit
<1>7. RacersAreKnown'
  BY <1>2, <1>4 DEF CatalogInv, RacersAreKnown
<1>8. CancellationsAreFinal'
  BY <1>2, <1>3, <1>4 DEF CatalogInv, CancellationsAreFinal
<1>9. ClosersAreKnown'
  BY <1>2, <1>4 DEF CatalogInv, ClosersAreKnown, EventOps
<1>10. OrganizerCallsAreKnown'
  BY <1>1, <1>2, OrganizersUndisturbed
<1> QED
  BY <1>0, <1>1, <1>2, <1>3, <1>5, <1>6, <1>7, <1>8, <1>9, <1>10 DEF CatalogInv, CatalogTypeOK

\* Every step preserves the invariant.
LEMMA StepPreservesCatalog == CatalogInv /\ [CatalogNext]_catalogVars => CatalogInv'
<1> SUFFICES ASSUME CatalogInv, [CatalogNext]_catalogVars PROVE CatalogInv'
  OBVIOUS
<1>1. CASE CatalogNext
  BY <1>1, ChecksPreserveCatalog, OrganizerWritesPreserveCatalog, EventWritesPreserveCatalog,
     EndingsPreserveCatalog DEF CatalogNext
<1>2. CASE UNCHANGED catalogVars
  <2>1. UNCHANGED <<organizer, event, request, first, closing, overlapped, lateSales>>
    BY <1>2 DEF catalogVars, catalogRows, historyVars
  <2> QED
    BY <2>1 DEF CatalogInv, CatalogTypeOK, CallsHaveRows, DatesWillFit, DatesInOrder,
       RacersAreKnown, CancellationsAreFinal, ClosersAreKnown, OrganizerCallsAreKnown
<1> QED
  BY <1>1, <1>2

\* The invariant holds in every reachable state.
LEMMA CatalogHolds == CatalogSpec => []CatalogInv
BY InitEstablishesCatalog, StepPreservesCatalog, PTL DEF CatalogSpec

\* A call that waits and ends has changed.
LEMMA FinishIsSeen ==
    ASSUME CatalogInv, NEW c \in Calls, request[c].op \in AllOps, Finish(c)
    PROVE  request'[c] # request[c]
BY FinishedCall DEF AllOps

\* Every row, call and history variable of the catalog has its type, whatever
\* calls overlap and die.
THEOREM CatalogTypesHold == CatalogSpec => []CatalogTypeOK
BY CatalogHolds, PTL DEF CatalogInv

\* Whatever updates, publications and cancellations race, the dates of an
\* event are in order as long as no two updates of it overlapped (the check
\* of updateOwned on its own copy is enough then).
THEOREM DatesStayInOrder == CatalogSpec => []DatesInOrder
BY CatalogHolds, PTL DEF CatalogInv

\* Nobody who arrives after a cancellation is sold a ticket, for any number
\* of buyers and calls, unless two publications of the event raced.
THEOREM LatecomersAreTurnedAway == CatalogSpec => []NoSaleAfterCancellation
<1>1. CatalogInv => NoSaleAfterCancellation
  BY DEF CatalogInv, CancellationsAreFinal, NoSaleAfterCancellation
<1> QED
  BY <1>1, CatalogHolds, PTL

\* What setStatus and update may still do to a cancelled event: only calls
\* that were waiting when it was cancelled change it, and a publication among
\* them had raced with the first one.
THEOREM CancelledEventsAreFrozen == CatalogSpec => CancelledIsFrozen
<1>1. ASSUME CatalogInv, CatalogNext, NEW e \in Events,
             event[e].status = "CANCELLED", event'[e] # event[e]
      PROVE  \/ \E c \in closing[e] :
                   /\ request'[c] # request[c]
                   /\ request[c].op = "publish" => c \in first[e]
             \/ event'[e] = [event[e] EXCEPT !.payable = TRUE]
  <2>0. event \in [Events -> EventRows] /\ request \in [Calls -> Requests]
    BY <1>1 DEF CatalogInv, CatalogTypeOK
  <2>1. CASE \E c \in Calls : InsertEvent(c)
    <3>1. PICK c \in Calls : InsertEvent(c)
      BY <2>1
    <3>2. request[c].on # e
      BY <1>1, <3>1 DEF InsertEvent, CatalogInv, CallsHaveRows
    <3> QED
      BY <1>1, <2>0, <3>1, <3>2 DEF InsertEvent
  <2>2. CASE \E c \in Calls : SaveEvent(c) \/ SavePublication(c) \/ SaveCancellation(c)
    <3>1. PICK c \in Calls : SaveEvent(c) \/ SavePublication(c) \/ SaveCancellation(c)
      BY <2>2
    <3>2. Finish(c) /\ request[c].op \in {"updateEvent", "publish", "cancel"}
      BY <3>1 DEF SaveEvent, SavePublication, SaveCancellation
    <3>3. request[c].on = e
      BY <1>1, <2>0, <3>1 DEF SaveEvent, SavePublication, SaveCancellation
    <3>4. c \in closing[e] /\ (request[c].op = "publish" => c \in first[e])
      BY <1>1, <3>2, <3>3 DEF CatalogInv, ClosersAreKnown, RacersAreKnown, EventOps
    <3>5. request'[c] # request[c]
      BY <1>1, <3>2, FinishIsSeen DEF AllOps
    <3> QED
      BY <3>4, <3>5
  <2>3. CASE \E x \in Events : ConfigurePayment(x)
    BY <1>1, <2>0, <2>3 DEF ConfigurePayment
  <2>4. CASE UNCHANGED event
    BY <1>1, <2>4
  <2> QED
    BY <1>1, <2>1, <2>2, <2>3, <2>4
       DEF CatalogNext, CreateOrganizer, UpdateOrganizer, SubmitForReview, CreateForOrganizer,
           UpdateOwned, PublishOwned, CancelOwned, InitiatePayment, SaveOrganizer,
           SaveSubmission, StoreIntent, AbandonCall, Review, catalogRows
<1>2. CatalogInv /\ [CatalogNext]_catalogVars =>
        [\A e \in Events :
            event[e].status = "CANCELLED" /\ event'[e] # event[e] =>
                \/ \E c \in closing[e] :
                      /\ request'[c] # request[c]
                      /\ request[c].op = "publish" => c \in first[e]
                \/ event'[e] = [event[e] EXCEPT !.payable = TRUE]]_catalogVars
  BY <1>1
<1> QED
  BY <1>2, CatalogHolds, PTL DEF CatalogSpec, CancelledIsFrozen

\* What the reviewers decided stands, for any number of submissions and
\* updates, against all calls but those that were waiting at that time.
THEOREM ReviewsStand == CatalogSpec => DecisionsStand
<1>1. ASSUME CatalogInv, CatalogNext, NEW o \in Organizers
      PROVE  /\ Undone(o) => \E c \in first[o] \cap closing[o] : request'[c] # request[c]
             /\ Edited(o) => \E c \in closing[o] : request'[c] # request[c]
  <2>0. organizer \in [Organizers -> OrganizerRows] /\ request \in [Calls -> Requests]
    BY <1>1 DEF CatalogInv, CatalogTypeOK
  <2>1. CASE \E c \in Calls, u \in Users, x \in Organizers, p \in Profiles :
                CreateOrganizer(c, u, x, p)
    BY <2>0, <2>1 DEF CreateOrganizer, Undone, Edited
  <2>2. CASE \E c \in Calls : SaveOrganizer(c)
    <3>1. PICK c \in Calls : SaveOrganizer(c)
      BY <2>2
    <3>2. /\ request[c].op = "updateOrganizer" /\ Finish(c)
          /\ request[c].on \in Organizers /\ organizer[request[c].on].status # "ABSENT"
          /\ request[c].profile \in Profiles
      BY <1>1, <2>0, <3>1, RequestFields
         DEF SaveOrganizer, CatalogInv, OrganizerCallsAreKnown, OrganizerOps
    <3>3. /\ \A x \in Organizers : organizer'[x].status = organizer[x].status
          /\ \A x \in Organizers \ {request[c].on} : organizer'[x] = organizer[x]
      BY <2>0, <3>1, <3>2, OrganizerRow DEF SaveOrganizer
    <3>4. request'[c] # request[c]
      BY <1>1, <3>2, FinishIsSeen DEF AllOps
    <3>5. Edited(o) => c \in closing[o]
      BY <1>1, <3>2, <3>3 DEF Edited, CatalogInv, OrganizerCallsAreKnown, OrganizerOps
    <3> QED
      BY <3>3, <3>4, <3>5 DEF Undone
  <2>3. CASE \E c \in Calls : SaveSubmission(c)
    <3>1. PICK c \in Calls : SaveSubmission(c)
      BY <2>3
    <3>2. /\ request[c].op = "submit" /\ Finish(c)
          /\ request[c].on \in Organizers /\ organizer[request[c].on].status # "ABSENT"
      BY <1>1, <3>1 DEF SaveSubmission, CatalogInv, OrganizerCallsAreKnown, OrganizerOps
    <3>3. "PENDING_REVIEW" \in OrganizerStatuses \ {"ABSENT"}
      BY DEF OrganizerStatuses
    <3>4. /\ \A x \in Organizers : organizer'[x].profile = organizer[x].profile
          /\ \A x \in Organizers \ {request[c].on} : organizer'[x] = organizer[x]
      BY <2>0, <3>1, <3>2, <3>3, OrganizerRow DEF SaveSubmission
    <3>5. request'[c] # request[c]
      BY <1>1, <3>2, FinishIsSeen DEF AllOps
    <3>6. Undone(o) => c \in first[o] \cap closing[o]
      BY <1>1, <3>2, <3>4 DEF Undone, CatalogInv, OrganizerCallsAreKnown, OrganizerOps
    <3> QED
      BY <3>4, <3>5, <3>6 DEF Edited
  <2>4. CASE \E x \in Organizers, s \in OrganizerStatuses : Review(x, s)
    <3>1. PICK x \in Organizers, s \in OrganizerStatuses : Review(x, s)
      BY <2>4
    <3>2. /\ organizer[x] \in OrganizerRows /\ organizer[x].status # "ABSENT"
          /\ s \in OrganizerStatuses \ {"ABSENT"} /\ s # "PENDING_REVIEW"
          /\ organizer'[x] = [organizer[x] EXCEPT !.status = s]
          /\ \A y \in Organizers \ {x} : organizer'[y] = organizer[y]
      BY <2>0, <3>1 DEF Review
    <3>3. organizer'[x].status = s /\ organizer'[x].profile = organizer[x].profile
      BY <3>2, OrganizerRow
    <3> QED
      BY <3>2, <3>3 DEF Undone, Edited
  <2>5. CASE UNCHANGED organizer
    BY <2>5 DEF Undone, Edited
  <2> QED
    BY <1>1, <2>1, <2>2, <2>3, <2>4, <2>5
       DEF CatalogNext, UpdateOrganizer, SubmitForReview, CreateForOrganizer, UpdateOwned,
           PublishOwned, CancelOwned, InitiatePayment, InsertEvent, SaveEvent, SavePublication,
           SaveCancellation, StoreIntent, AbandonCall, ConfigurePayment, catalogRows
<1>2. CatalogInv /\ [CatalogNext]_catalogVars =>
        [\A o \in Organizers :
            /\ Undone(o) => \E c \in first[o] \cap closing[o] : request'[c] # request[c]
            /\ Edited(o) => \E c \in closing[o] : request'[c] # request[c]]_catalogVars
  BY <1>1
<1> QED
  BY <1>2, CatalogHolds, PTL DEF CatalogSpec, DecisionsStand

-----------------------------------------------------------------------------
(* AdminSupport *)

\* A call under way, one past the guards, and one that has read.
Active == {"new", "admitted", "read", "recorded", "answered"}

Admitted == {"admitted", "read", "recorded", "answered"}

HasRead == {"read", "recorded", "answered"}

\* A call under way has an actor and a query; only one that has read holds
\* records.
CallsAreBound ==
    \A c \in Lookups :
        /\ lookup[c].pc \in Active => lookup[c].actor \in Actors /\ lookup[c].query \in Queries
        /\ lookup[c].pc \notin HasRead => lookup[c].items = {} /\ lookup[c].present = {}

\* Sessions end for good: who arrived without one is never admitted.
LatecomersHaveNoSession ==
    \A c \in Lookups :
        /\ lookup[c].pc = "new" /\ lookup[c].late => lookup[c].actor \notin live
        /\ lookup[c].pc \in Admitted => ~ lookup[c].late

Traced(c) ==
    \E r \in table["auditLog"] :
        /\ r.id = c
        /\ Text(r, "actorUserId") = {lookup[c].actor}
        /\ Text(r, "targetType") = {SUPPORT_TARGET_TYPES[lookup[c].query.kind]}
        /\ Text(r, "targetId") = {lookup[c].query.id} \ {Null}
        /\ r.page.resultCount = Cardinality(lookup[c].items)

\* The row is in the log before the answer is sent.
RecordedIsTraced == \A c \in Lookups : lookup[c].pc \in {"recorded", "answered"} => Traced(c)

\* What a call holds was redacted when it was read, and what it writes when
\* it is written.
HeldIsHarmless ==
    /\ \A c \in Lookups : \A item \in lookup[c].items : Harmless(item.cells)
    /\ \A r \in table["auditLog"] : r.id \in Lookups => Harmless(r.cells)

\* A list without a search.
Browses(c) == lookup[c].query.id = Null /\ lookup[c].query.search = Null

\* What a list without a search holds is one page of the rows it found, and
\* those rows are still there.
HoldsAPage(c) ==
    LET q == lookup[c].query
    IN /\ lookup[c].present \subseteq table[q.kind]
       /\ \E page \in Pages(lookup[c].present, q.offset, q.limit) :
             Ids(lookup[c].items) = Ids(page)

PagesAreExact ==
    /\ \A k \in Kinds : IsFiniteSet(table[k])
    /\ \A c \in Lookups : lookup[c].pc \in HasRead /\ Browses(c) => HoldsAPage(c)

\* A call finds what was there for those answered before it arrived.
LaterCallsFindMore ==
    \A a, b \in Lookups : a \in lookup[b].after =>
        /\ lookup[a].pc = "answered"
        /\ lookup[b].pc \in HasRead /\ Browses(a) /\ Browses(b)
           /\ lookup[a].query.kind = lookup[b].query.kind =>
               lookup[a].present \subseteq lookup[b].present

SupportInv ==
    /\ SupportTypeOK /\ CallsAreBound /\ LatecomersHaveNoSession
    /\ RecordedIsTraced /\ HeldIsHarmless /\ PagesAreExact /\ LaterCallsFindMore

\* The same invariant, sorted by what it is about: the tables, and one call.
TablesFit ==
    /\ DOMAIN table = Kinds
    /\ \A k \in Kinds : /\ IsFiniteSet(table[k])
                        /\ \A r \in table[k] : /\ r.at \in 0 .. MaxClock
                                               /\ \A x \in r.cells : Len(x.path) > 0
    /\ \A r \in table["auditLog"] : r.id \in Lookups => Harmless(r.cells)

CallFits(c) ==
    /\ DOMAIN lookup[c] = DOMAIN NoLookup
    /\ lookup[c].pc \in {"idle", "new", "admitted", "read", "recorded", "answered",
                         "refused", "missing", "failed", "lost"}
    /\ lookup[c].query # Null => lookup[c].actor \in Actors /\ lookup[c].query \in Queries
    /\ lookup[c].items # {} => Cardinality(lookup[c].items) <= lookup[c].query.limit
    /\ lookup[c].pc \in Active => lookup[c].actor \in Actors /\ lookup[c].query \in Queries
    /\ lookup[c].pc \notin HasRead => lookup[c].items = {} /\ lookup[c].present = {}
    /\ lookup[c].pc = "new" /\ lookup[c].late => lookup[c].actor \notin live
    /\ lookup[c].pc \in Admitted => ~ lookup[c].late
    /\ lookup[c].pc \in {"recorded", "answered"} => Traced(c)
    /\ \A item \in lookup[c].items : Harmless(item.cells)
    /\ lookup[c].pc \in HasRead /\ Browses(c) => HoldsAPage(c)

\* redactUnknown lets no forbidden key and no sensitive text through.
LEMMA RedactIsHarmless ==
    ASSUME NEW cells
    PROVE  Harmless(Redact(cells))
<1>1. ~ ShouldRedactStringValue({"[REDACTED]"})
  BY TextAssumption DEF ShouldRedactStringValue, SensitiveFragments
<1> QED
  BY <1>1 DEF Harmless, Redact

\* The image of a page under Response has no more records than the page.
LEMMA ResponsesAreFew ==
    ASSUME NEW kind, NEW page, IsFiniteSet(page)
    PROVE  Cardinality({Response(kind, r) : r \in page}) <= Cardinality(page)
<1> DEFINE items == {Response(kind, r) : r \in page}
           f == [r \in page |-> Response(kind, r)]
<1>1. f \in Surjection(page, items)
  BY DEF Surjection
<1> HIDE DEF items, f
<1>2. Cardinality(items) <= Cardinality(page)
  BY <1>1, FS_Surjection
<1> QED
  BY <1>2 DEF items

\* Two pages that follow each other, the second on a table that has grown and
\* reaching its end, miss no row whose timestamp is its own.
LEMMA ConsecutivePagesMissNothing ==
    ASSUME NEW before, NEW after, before \subseteq after, IsFiniteSet(after),
           \A r \in after : r.at \in Nat,
           NEW limit \in Nat, NEW limit2 \in Nat, Cardinality(after) <= limit + limit2,
           NEW page \in Pages(before, 0, limit), NEW page2 \in Pages(after, limit, limit2),
           NEW r \in before, \A s \in after : s.at = r.at => s.id = r.id
    PROVE  r.id \in Ids(page) \cup Ids(page2)
<1>1. PICK none \in SUBSET (before \ page) :
         /\ Cardinality(none) <= 0
         /\ Cardinality(page) < limit => none \cup page = before
         /\ NoneNewerOutside(none \cup page, before)
  BY DEF Pages
<1>2. PICK skipped \in SUBSET (after \ page2) :
         /\ Cardinality(skipped) <= limit
         /\ Cardinality(page2) <= limit2
         /\ Cardinality(skipped) < limit => skipped = after
         /\ Cardinality(page2) < limit2 => skipped \cup page2 = after
         /\ NoneNewerOutside(skipped, after)
  BY DEF Pages
<1>3. page \in SUBSET before /\ page2 \in SUBSET after
  BY DEF Pages
<1>4. /\ IsFiniteSet(page) /\ IsFiniteSet(none) /\ IsFiniteSet(page2) /\ IsFiniteSet(skipped)
      /\ Cardinality(page) \in Nat /\ Cardinality(none) \in Nat
      /\ Cardinality(page2) \in Nat /\ Cardinality(skipped) \in Nat
      /\ Cardinality(after) \in Nat
  BY <1>1, <1>2, <1>3, FS_Subset, FS_CardinalityType
<1>5. none = {}
  <2>1. Cardinality(none) = 0
    BY <1>1, <1>4
  <2> QED
    BY <2>1, <1>4, FS_EmptySet
<1>6. skipped \cup page2 = after
  <2>1. CASE Cardinality(skipped) = limit /\ Cardinality(page2) = limit2
    <3>1. skipped \cap page2 = {}
      BY <1>2
    <3>2. Cardinality(skipped \cup page2) = limit + limit2
      <4>1. Cardinality(skipped \cup page2) =
              Cardinality(skipped) + Cardinality(page2) - Cardinality(skipped \cap page2)
        BY <1>4, FS_Union
      <4>2. Cardinality(skipped \cap page2) = 0
        BY <3>1, FS_EmptySet
      <4> QED
        BY <2>1, <4>1, <4>2
    <3>3. skipped \cup page2 \in SUBSET after
      BY <1>2, <1>3
    <3>4. Cardinality(skipped \cup page2) <= Cardinality(after)
      BY <3>3, FS_Subset
    <3>5. Cardinality(after) = Cardinality(skipped \cup page2)
      BY <1>4, <3>2, <3>4
    <3> QED
      BY <3>3, <3>5, FS_Subset
  <2> QED
    BY <1>2, <1>3, <1>4, <2>1
<1>7. CASE r \in page \cup page2
  BY <1>7 DEF Ids
<1>8. CASE r \notin page \cup page2
  <2>1. r \in skipped /\ r \in after
    BY <1>6, <1>8
  <2>2. Cardinality(page) >= limit
    BY <1>1, <1>4, <1>5, <1>8
  <2>3. PICK t \in page : t \notin skipped
    <3> SUFFICES ASSUME page \subseteq skipped PROVE FALSE
      OBVIOUS
    <3>1. Cardinality(page \cup {r}) = Cardinality(page) + 1
      BY <1>4, <1>8, FS_AddElement
    <3>2. page \cup {r} \in SUBSET skipped
      BY <2>1
    <3>3. Cardinality(page \cup {r}) <= Cardinality(skipped)
      BY <1>4, <3>2, FS_Subset
    <3> QED
      BY <1>2, <1>4, <2>2, <3>1, <3>3
  <2>4. t \in after
    BY <1>3
  <2>5. t.at <= r.at
    BY <1>2, <2>1, <2>3, <2>4 DEF NoneNewerOutside
  <2>6. r.at <= t.at
    BY <1>1, <1>5, <1>8 DEF NoneNewerOutside
  <2>7. t.at = r.at
    BY <2>1, <2>4, <2>5, <2>6
  <2> QED
    BY <2>4, <2>7 DEF Ids
<1> QED
  BY <1>7, <1>8

\* The row recordRead writes names the actor, the target and the number of
\* records, and holds nothing sensitive.
LEMMA AuditRowIsATrace ==
    ASSUME NEW c \in Lookups, lookup[c].actor \in Actors, lookup[c].query \in Queries
    PROVE  LET r == AuditRow(c)
           IN /\ r.id = c /\ r.at = clock
              /\ Text(r, "actorUserId") = {lookup[c].actor}
              /\ Text(r, "targetType") = {SUPPORT_TARGET_TYPES[lookup[c].query.kind]}
              /\ Text(r, "targetId") = {lookup[c].query.id} \ {Null}
              /\ r.page.resultCount = Cardinality(lookup[c].items)
              /\ Harmless(r.cells)
              /\ \A x \in r.cells : Len(x.path) > 0
<1> DEFINE q == lookup[c].query
           metadata == {[path |-> <<"metadata", "filters", "search">>, value |-> {text}] :
                           text \in {q.search} \ {Null}}
           columns == {Column("actorUserId", lookup[c].actor), Column("status", "SUCCEEDED"),
                       Column("targetType", SUPPORT_TARGET_TYPES[q.kind]),
                       Column("reasonCode", "SUPPORT_READ")}
                      \cup {Column("targetId", id) : id \in {q.id} \ {Null}}
           r == AuditRow(c)
<1>1. /\ r.cells = columns \cup Redact(metadata)
      /\ r.id = c /\ r.at = clock /\ r.page.resultCount = Cardinality(lookup[c].items)
  BY DEF AuditRow
<1>2. \A x \in Redact(metadata) : x.path = <<"metadata", "filters", "search">>
  BY DEF Redact
<1>3. Harmless(Redact(metadata))
  BY RedactIsHarmless
<1>4. /\ q.kind \in Kinds
      /\ q.id # Null => q.id \in Uuids
  BY QueryAssumption
<1>5. \A x \in columns :
         \/ x.path = <<"actorUserId">> /\ x.value = {lookup[c].actor}
         \/ x.path = <<"status">> /\ x.value = {"SUCCEEDED"}
         \/ x.path = <<"targetType">> /\ x.value = {SUPPORT_TARGET_TYPES[q.kind]}
         \/ x.path = <<"reasonCode">> /\ x.value = {"SUPPORT_READ"}
         \/ x.path = <<"targetId">> /\ x.value = {q.id} /\ q.id # Null
  BY DEF Column
<1>6. /\ [path |-> <<"actorUserId">>, value |-> {lookup[c].actor}] \in columns
      /\ [path |-> <<"targetType">>, value |-> {SUPPORT_TARGET_TYPES[q.kind]}] \in columns
      /\ q.id # Null => [path |-> <<"targetId">>, value |-> {q.id}] \in columns
  BY DEF Column
<1> HIDE DEF metadata, columns, r
<1>7. Text(r, "actorUserId") = {lookup[c].actor}
  BY <1>1, <1>2, <1>5, <1>6 DEF Text
<1>8. Text(r, "targetType") = {SUPPORT_TARGET_TYPES[q.kind]}
  BY <1>1, <1>2, <1>5, <1>6 DEF Text
<1>9. Text(r, "targetId") = {q.id} \ {Null}
  BY <1>1, <1>2, <1>5, <1>6 DEF Text
<1>10. \A x \in r.cells : Len(x.path) > 0
  BY <1>1, <1>2, <1>5
<1>11. Harmless(columns)
  <2>1. ASSUME NEW x \in columns
        PROVE  ~ ShouldRedactStringValue(x.value)
    <3>1. /\ lookup[c].actor \notin SensitiveFragments
          /\ q.id # Null => q.id \notin SensitiveFragments
      BY <1>4, TextAssumption
    <3>2. /\ "SUCCEEDED" \notin SensitiveFragments
          /\ "SUPPORT_READ" \notin SensitiveFragments
      BY TextAssumption DEF SensitiveFragments
    <3>3. SUPPORT_TARGET_TYPES[q.kind] \notin SensitiveFragments
      <4>1. SUPPORT_TARGET_TYPES[q.kind] \in
              {"user", "organizer", "event", "payment_intent", "ticket",
               "admission_scan_audit", "admin_support_audit_log"}
        BY <1>4 DEF SUPPORT_TARGET_TYPES, Kinds
      <4>2. SUPPORT_TARGET_TYPES[q.kind] \notin EnvSecrets
        BY <1>4, TextAssumption
      <4> HIDE DEF q
      <4> QED
        BY <4>1, <4>2 DEF SensitiveFragments
    <3> QED
      BY <1>5, <3>1, <3>2, <3>3 DEF ShouldRedactStringValue
  <2>2. ASSUME NEW x \in columns, NEW i \in DOMAIN x.path
        PROVE  ~ ShouldRedactKey(x.path[i])
    <3>1. x.path[i] \in {"actorUserId", "status", "targetType", "reasonCode", "targetId"}
      BY <1>5, <2>2
    <3> QED
      BY <3>1, TextAssumption DEF ShouldRedactKey, FORBIDDEN_EXACT_KEYS
  <2> QED
    BY <2>1, <2>2 DEF Harmless
<1>12. Harmless(r.cells)
  BY <1>1, <1>3, <1>11 DEF Harmless
<1> QED
  BY <1>1, <1>7, <1>8, <1>9, <1>10, <1>12 DEF r

\* Both forms say the same.
LEMMA SupportInvByPart ==
    SupportInv <=> /\ TablesFit
                   /\ live \in SUBSET Actors /\ clock \in 0 .. MaxClock
                   /\ DOMAIN lookup = Lookups
                   /\ \A c \in Lookups : CallFits(c)
                   /\ LaterCallsFindMore
BY DEF SupportInv, SupportTypeOK, CallsAreBound, LatecomersHaveNoSession, RecordedIsTraced,
   HeldIsHarmless, PagesAreExact, TablesFit, CallFits

\* The same for the state after a step.
LEMMA SupportInvNext ==
    ASSUME TablesFit', live' \in SUBSET Actors, clock' \in 0 .. MaxClock,
           DOMAIN lookup' = Lookups, \A c \in Lookups : CallFits(c)', LaterCallsFindMore'
    PROVE  SupportInv'
BY DEF SupportInv, SupportTypeOK, CallsAreBound, LatecomersHaveNoSession, RecordedIsTraced,
   HeldIsHarmless, PagesAreExact, TablesFit, CallFits

\* A call that does not move is not disturbed: sessions only end, and rows are
\* only added.
LEMMA UndisturbedCall ==
    ASSUME NEW d \in Lookups, CallFits(d), UNCHANGED lookup[d], live' \subseteq live,
           DOMAIN table = Kinds, \A k \in Kinds : table[k] \subseteq table'[k]
    PROVE  CallFits(d)'
<1>1. Traced(d) => Traced(d)'
  BY DEF Traced, Kinds
<1>2. lookup[d].query \in Queries => lookup[d].query.kind \in Kinds
  BY QueryAssumption
<1>3. lookup[d].query \in Queries /\ HoldsAPage(d) => HoldsAPage(d)'
  BY <1>2 DEF HoldsAPage
<1>4. Browses(d)' <=> Browses(d)
  BY DEF Browses
<1> QED
  BY <1>1, <1>3, <1>4 DEF CallFits, Active, HasRead

\* A step of one call, which has no answer yet.
LEMMA OneCallMoves ==
    ASSUME SupportInv, NEW c \in Lookups, lookup[c].pc # "answered",
           DOMAIN lookup' = Lookups, \A d \in Lookups \ {c} : lookup'[d] = lookup[d],
           TablesFit', \A k \in Kinds : table[k] \subseteq table'[k],
           UNCHANGED <<live, clock>>, CallFits(c)',
           \A a \in Lookups : a \in lookup'[c].after =>
               /\ lookup[a].pc = "answered"
               /\ lookup'[c].pc \in HasRead /\ Browses(a) /\ Browses(c)'
                  /\ lookup[a].query.kind = lookup'[c].query.kind =>
                      lookup[a].present \subseteq lookup'[c].present
    PROVE  SupportInv'
<1>1. /\ DOMAIN table = Kinds /\ \A d \in Lookups : CallFits(d)
      /\ live \in SUBSET Actors /\ clock \in 0 .. MaxClock /\ LaterCallsFindMore
  BY SupportInvByPart DEF TablesFit
<1>2. \A d \in Lookups : CallFits(d)'
  BY <1>1, UndisturbedCall
<1>3. LaterCallsFindMore'
  <2> SUFFICES ASSUME NEW a \in Lookups, NEW b \in Lookups, a \in lookup'[b].after
               PROVE  /\ lookup'[a].pc = "answered"
                      /\ lookup'[b].pc \in HasRead /\ Browses(a)' /\ Browses(b)'
                         /\ lookup'[a].query.kind = lookup'[b].query.kind =>
                             lookup'[a].present \subseteq lookup'[b].present
    BY DEF LaterCallsFindMore
  <2>1. lookup[a].pc = "answered" /\ lookup'[a] = lookup[a]
    BY <1>1 DEF LaterCallsFindMore
  <2>2. Browses(a)' <=> Browses(a)
    BY <2>1 DEF Browses
  <2>3. CASE b = c
    BY <2>1, <2>2, <2>3
  <2>4. CASE b # c
    <3>1. lookup'[b] = lookup[b] /\ (Browses(b)' <=> Browses(b))
      BY <2>4 DEF Browses
    <3> QED
      BY <1>1, <2>1, <2>2, <3>1 DEF LaterCallsFindMore
  <2> QED
    BY <2>3, <2>4
<1>4. live' \in SUBSET Actors /\ clock' \in 0 .. MaxClock
  BY <1>1
<1> QED
  BY <1>2, <1>3, <1>4, SupportInvNext

\* What the steps of a call leave of it.
LEMMA MovedCall ==
    ASSUME DOMAIN lookup = Lookups, NEW c \in Lookups,
           DOMAIN lookup[c] = DOMAIN NoLookup, NEW pc
    PROVE  /\ Goto(c, pc) =>
                /\ DOMAIN lookup' = Lookups
                /\ \A d \in Lookups \ {c} : lookup'[d] = lookup[d]
                /\ DOMAIN lookup'[c] = DOMAIN NoLookup
                /\ lookup'[c].pc = pc
                /\ lookup'[c].actor = lookup[c].actor /\ lookup'[c].query = lookup[c].query
                /\ lookup'[c].items = lookup[c].items /\ lookup'[c].late = lookup[c].late
                /\ lookup'[c].after = lookup[c].after
                /\ lookup'[c].present = lookup[c].present
           /\ EndAs(c, pc) =>
                /\ DOMAIN lookup' = Lookups
                /\ \A d \in Lookups \ {c} : lookup'[d] = lookup[d]
                /\ DOMAIN lookup'[c] = DOMAIN NoLookup
                /\ lookup'[c].pc = pc
                /\ lookup'[c].query = Null /\ lookup'[c].items = {}
                /\ lookup'[c].after = {} /\ lookup'[c].present = {}
<1>1. DOMAIN lookup[c] = {"pc", "actor", "query", "items", "late", "after", "present"}
  BY DEF NoLookup
<1>2. ASSUME Goto(c, pc)
      PROVE  /\ DOMAIN lookup' = Lookups
             /\ \A d \in Lookups \ {c} : lookup'[d] = lookup[d]
             /\ lookup'[c] = [lookup[c] EXCEPT !.pc = pc]
  BY <1>2 DEF Goto
<1>3. ASSUME EndAs(c, pc)
      PROVE  /\ DOMAIN lookup' = Lookups
             /\ \A d \in Lookups \ {c} : lookup'[d] = lookup[d]
             /\ lookup'[c] = [NoLookup EXCEPT !.pc = pc]
  BY <1>3 DEF EndAs
<1>4. ASSUME Goto(c, pc)
      PROVE  /\ DOMAIN lookup'[c] = DOMAIN NoLookup
             /\ lookup'[c].pc = pc
             /\ lookup'[c].actor = lookup[c].actor /\ lookup'[c].query = lookup[c].query
             /\ lookup'[c].items = lookup[c].items /\ lookup'[c].late = lookup[c].late
             /\ lookup'[c].after = lookup[c].after
             /\ lookup'[c].present = lookup[c].present
  BY <1>1, <1>2, <1>4
<1>5. ASSUME EndAs(c, pc)
      PROVE  /\ DOMAIN lookup'[c] = DOMAIN NoLookup
             /\ lookup'[c].pc = pc
             /\ lookup'[c].query = Null /\ lookup'[c].items = {}
             /\ lookup'[c].after = {} /\ lookup'[c].present = {}
  BY <1>3, <1>5 DEF NoLookup
<1> QED
  BY <1>2, <1>3, <1>4, <1>5

\* A call that ends without an answer.
LEMMA EndingPreservesSupport ==
    ASSUME SupportInv, NEW c \in Lookups, lookup[c].pc # "answered",
           NEW pc \in {"refused", "missing", "failed", "lost"}, EndAs(c, pc),
           TablesFit', \A k \in Kinds : table[k] \subseteq table'[k], UNCHANGED <<live, clock>>
    PROVE  SupportInv'
<1>1. DOMAIN lookup = Lookups /\ DOMAIN lookup[c] = DOMAIN NoLookup
  BY SupportInvByPart DEF CallFits
<1>2. /\ DOMAIN lookup' = Lookups
      /\ \A d \in Lookups \ {c} : lookup'[d] = lookup[d]
      /\ DOMAIN lookup'[c] = DOMAIN NoLookup
      /\ lookup'[c].pc = pc
      /\ lookup'[c].query = Null /\ lookup'[c].items = {}
      /\ lookup'[c].after = {} /\ lookup'[c].present = {}
  BY <1>1, MovedCall
<1>3. CallFits(c)'
  BY <1>2 DEF CallFits, Active, Admitted, HasRead
<1>4. \A a \in Lookups : a \notin lookup'[c].after
  BY <1>2
<1> QED
  BY <1>2, <1>3, <1>4, OneCallMoves

\* A call that goes on with what it holds.
LEMMA MovingOnPreservesSupport ==
    ASSUME SupportInv, NEW c \in Lookups, NEW pc, Goto(c, pc),
           \/ lookup[c].pc = "new" /\ pc = "admitted" /\ lookup[c].actor \in live
           \/ lookup[c].pc = "read" /\ pc = "recorded" /\ Traced(c)'
           \/ lookup[c].pc = "recorded" /\ pc = "answered",
           TablesFit', \A k \in Kinds : table[k] \subseteq table'[k], UNCHANGED <<live, clock>>
    PROVE  SupportInv'
<1>1. /\ DOMAIN lookup = Lookups /\ CallFits(c) /\ DOMAIN table = Kinds
      /\ LaterCallsFindMore
  BY SupportInvByPart DEF TablesFit
<1>2. /\ DOMAIN lookup' = Lookups
      /\ \A d \in Lookups \ {c} : lookup'[d] = lookup[d]
      /\ DOMAIN lookup'[c] = DOMAIN NoLookup
      /\ lookup'[c].pc = pc
      /\ lookup'[c].actor = lookup[c].actor /\ lookup'[c].query = lookup[c].query
      /\ lookup'[c].items = lookup[c].items /\ lookup'[c].late = lookup[c].late
      /\ lookup'[c].after = lookup[c].after
      /\ lookup'[c].present = lookup[c].present
  BY <1>1, MovedCall DEF CallFits
<1>3. Browses(c)' <=> Browses(c)
  BY <1>2 DEF Browses
<1>4. pc \in {"recorded", "answered"} => Traced(c)'
  BY <1>1, <1>2 DEF CallFits, Traced, Kinds
<1>5. pc \in HasRead /\ Browses(c)' => HoldsAPage(c)'
  <2> SUFFICES ASSUME pc \in HasRead, Browses(c)
               PROVE  HoldsAPage(c)'
    BY <1>3
  <2>1. HoldsAPage(c) /\ lookup[c].query.kind \in Kinds
    BY <1>1, QueryAssumption DEF CallFits, HasRead, Active
  <2> QED
    BY <1>2, <2>1 DEF HoldsAPage
<1>6. CallFits(c)'
  BY <1>1, <1>2, <1>4, <1>5 DEF CallFits, Active, Admitted, HasRead
<1>7. ASSUME NEW a \in Lookups, a \in lookup'[c].after
      PROVE  /\ lookup[a].pc = "answered"
             /\ lookup'[c].pc \in HasRead /\ Browses(a) /\ Browses(c)'
                /\ lookup[a].query.kind = lookup'[c].query.kind =>
                    lookup[a].present \subseteq lookup'[c].present
  BY <1>1, <1>2, <1>3, <1>7 DEF LaterCallsFindMore, HasRead
<1>8. lookup[c].pc # "answered"
  OBVIOUS
<1> QED
  BY <1>2, <1>6, <1>7, <1>8, OneCallMoves

\* A new row leaves the tables in order, if it is.
LEMMA AddedRow ==
    ASSUME TablesFit, NEW k \in Kinds, NEW r,
           table' = [table EXCEPT ![k] = @ \cup {r}],
           r.at \in 0 .. MaxClock, \A x \in r.cells : Len(x.path) > 0,
           k = "auditLog" /\ r.id \in Lookups => Harmless(r.cells)
    PROVE  TablesFit' /\ \A j \in Kinds : table[j] \subseteq table'[j]
<1>1. /\ DOMAIN table' = Kinds /\ table'[k] = table[k] \cup {r}
      /\ \A j \in Kinds \ {k} : table'[j] = table[j]
  BY DEF TablesFit
<1>2. IsFiniteSet(table'[k])
  BY <1>1, FS_AddElement DEF TablesFit
<1> QED
  BY <1>1, <1>2 DEF TablesFit, Kinds

\* A lookup arrives.
LEMMA ArrivalPreservesSupport ==
    ASSUME SupportInv, NEW c \in Lookups, NEW a \in Actors, NEW q \in Queries, Arrive(c, a, q)
    PROVE  SupportInv'
<1>1. DOMAIN lookup = Lookups /\ TablesFit
  BY SupportInvByPart
<1>2. /\ DOMAIN lookup' = Lookups
      /\ \A d \in Lookups \ {c} : lookup'[d] = lookup[d]
      /\ lookup'[c] =
            [NoLookup EXCEPT !.pc = "new", !.actor = a, !.query = q, !.late = a \notin live,
                             !.after = {d \in Lookups : lookup[d].pc = "answered"}]
      /\ lookup[c].pc # "answered"
      /\ UNCHANGED <<table, live, clock>>
  BY <1>1 DEF Arrive
<1>3. /\ DOMAIN lookup'[c] = DOMAIN NoLookup
      /\ lookup'[c].pc = "new" /\ lookup'[c].actor = a /\ lookup'[c].query = q
      /\ lookup'[c].late = (a \notin live)
      /\ lookup'[c].after = {d \in Lookups : lookup[d].pc = "answered"}
      /\ lookup'[c].items = {} /\ lookup'[c].present = {}
  BY <1>2 DEF NoLookup
<1>4. CallFits(c)'
  BY <1>2, <1>3 DEF CallFits, Active, Admitted, HasRead
<1>5. TablesFit' /\ \A k \in Kinds : table[k] \subseteq table'[k]
  BY <1>1, <1>2 DEF TablesFit
<1>6. ASSUME NEW d \in Lookups, d \in lookup'[c].after
      PROVE  lookup[d].pc = "answered" /\ lookup'[c].pc \notin HasRead
  BY <1>3, <1>6 DEF HasRead
<1> QED
  BY <1>2, <1>4, <1>5, <1>6, OneCallMoves

\* A lookup reads.
LEMMA ReadingPreservesSupport ==
    ASSUME SupportInv, NEW c \in Lookups, List(c) \/ Get(c)
    PROVE  SupportInv'
<1> DEFINE q == lookup[c].query
           matching == {r \in table[q.kind] : q.search = Null \/ Matches(q.kind, r, q.search)}
<1>1. /\ DOMAIN lookup = Lookups /\ CallFits(c) /\ TablesFit /\ LaterCallsFindMore
      /\ \A d \in Lookups : CallFits(d)
  BY SupportInvByPart
<1>2. /\ lookup[c].pc = "admitted" /\ UNCHANGED <<table, live, clock>>
      /\ lookup[c].actor \in Actors /\ q \in Queries /\ q.kind \in Kinds
      /\ q.limit \in Nat /\ q.offset \in Nat
      /\ lookup[c].items = {} /\ lookup[c].present = {}
      /\ q.id # Null => q.limit = 1
      /\ IsFiniteSet(table[q.kind])
      /\ DOMAIN lookup[c] = {"pc", "actor", "query", "items", "late", "after", "present"}
  <2>1. lookup[c].pc = "admitted" /\ UNCHANGED <<table, live, clock>>
    BY DEF List, Get
  <2>2. lookup[c].actor \in Actors /\ q \in Queries
    BY <1>1, <2>1 DEF CallFits, Active
  <2>3. q.kind \in Kinds /\ q.limit \in Nat /\ q.offset \in Nat /\ (q.id # Null => q.limit = 1)
    BY <2>2, QueryAssumption
  <2> QED
    BY <1>1, <2>1, <2>2, <2>3 DEF CallFits, TablesFit, HasRead, NoLookup
<1> HIDE DEF q
<1>3. PICK page, present :
         /\ page \in SUBSET table[q.kind] /\ present \in SUBSET table[q.kind]
         /\ Cardinality(page) <= q.limit
         /\ lookup' = [lookup EXCEPT ![c].pc = "read", ![c].present = present,
                                     ![c].items = {Response(q.kind, r) : r \in page}]
         /\ Browses(c) =>
              present = table[q.kind] /\ page \in Pages(present, q.offset, q.limit)
  <2>1. CASE List(c)
    <3>1. PICK page \in Pages(matching, q.offset, q.limit) :
             lookup' = [lookup EXCEPT ![c].pc = "read", ![c].present = table[q.kind],
                                      ![c].items = {Response(q.kind, r) : r \in page}]
      BY <2>1 DEF List, q
    <3>2. page \in SUBSET table[q.kind] /\ Cardinality(page) <= q.limit
      BY DEF Pages
    <3>3. Browses(c) => matching = table[q.kind]
      BY DEF Browses, q
    <3> QED
      BY <3>1, <3>2, <3>3
  <2>2. CASE Get(c)
    <3>1. PICK r \in table[q.kind] :
             lookup' = [lookup EXCEPT ![c].pc = "read", ![c].items = {Response(q.kind, r)}]
      BY <2>2 DEF Get, q
    <3>2. q.id # Null /\ ~ Browses(c)
      BY <2>2 DEF Get, Browses, q
    <3>3. Cardinality({r}) = 1
      BY FS_Singleton
    <3>4. lookup' = [lookup EXCEPT ![c].pc = "read", ![c].present = {},
                                   ![c].items = {Response(q.kind, s) : s \in {r}}]
      BY <1>1, <1>2, <3>1
    <3> DEFINE one == {r}
               none == {}
    <3>5. /\ one \in SUBSET table[q.kind] /\ none \in SUBSET table[q.kind]
          /\ Cardinality(one) <= q.limit
          /\ lookup' = [lookup EXCEPT ![c].pc = "read", ![c].present = none,
                                      ![c].items = {Response(q.kind, s) : s \in one}]
      BY <1>2, <3>2, <3>3, <3>4
    <3> HIDE DEF one, none
    <3> QED
      BY <3>2, <3>5
  <2> QED
    BY <2>1, <2>2
<1> DEFINE items == {Response(q.kind, r) : r \in page}
<1>4. /\ DOMAIN lookup' = Lookups
      /\ \A d \in Lookups \ {c} : lookup'[d] = lookup[d]
      /\ DOMAIN lookup'[c] = DOMAIN NoLookup
      /\ lookup'[c].pc = "read" /\ lookup'[c].items = items /\ lookup'[c].present = present
      /\ lookup'[c].actor = lookup[c].actor /\ lookup'[c].query = q
      /\ lookup'[c].late = lookup[c].late /\ lookup'[c].after = lookup[c].after
  BY <1>1, <1>2, <1>3 DEF NoLookup, q
<1>5. Cardinality(items) <= q.limit
  <2>1. IsFiniteSet(page)
    BY <1>2, <1>3, FS_Subset
  <2>2. Cardinality(page) \in Nat /\ IsFiniteSet(items) /\ Cardinality(items) \in Nat
    <3>1. [r \in page |-> Response(q.kind, r)] \in Surjection(page, items)
      BY DEF Surjection
    <3> QED
      BY <2>1, <3>1, FS_Surjection, FS_CardinalityType
  <2>3. Cardinality(items) <= Cardinality(page)
    BY <2>1, ResponsesAreFew
  <2> QED
    BY <1>2, <1>3, <2>2, <2>3
<1>6. \A item \in items : Harmless(item.cells)
  <2>1. ASSUME NEW r PROVE Harmless(Response(q.kind, r).cells)
    <3>1. Response(q.kind, r).cells = Redact({x \in r.cells : x.path[1] \in Selected[q.kind]})
      BY DEF Response
    <3> QED
      BY <3>1, RedactIsHarmless
  <2> QED
    BY <2>1
<1>7. Ids(items) = Ids(page)
  <2>1. ASSUME NEW r PROVE Response(q.kind, r).id = r.id
    BY DEF Response
  <2> QED
    BY <2>1 DEF Ids
<1> HIDE DEF items
<1>8. Browses(c)' <=> Browses(c)
  BY <1>4 DEF Browses, q
<1>9. Browses(c)' => HoldsAPage(c)'
  BY <1>2, <1>3, <1>4, <1>7, <1>8 DEF HoldsAPage
<1>10. CallFits(c)'
  BY <1>1, <1>2, <1>4, <1>5, <1>6, <1>9 DEF CallFits, Active, Admitted, HasRead
<1>11. TablesFit' /\ \A k \in Kinds : table[k] \subseteq table'[k]
  BY <1>1, <1>2 DEF TablesFit
<1>12. ASSUME NEW a \in Lookups, a \in lookup'[c].after
       PROVE  /\ lookup[a].pc = "answered"
              /\ Browses(a) /\ Browses(c)' /\ lookup[a].query.kind = lookup'[c].query.kind =>
                    lookup[a].present \subseteq lookup'[c].present
  <2>1. lookup[a].pc = "answered"
    BY <1>1, <1>4, <1>12 DEF LaterCallsFindMore
  <2>2. Browses(a) => lookup[a].present \subseteq table[lookup[a].query.kind]
    BY <1>1, <2>1 DEF CallFits, HasRead, HoldsAPage
  <2> QED
    BY <1>3, <1>4, <1>8, <2>1, <2>2
<1> QED
  BY <1>2, <1>4, <1>10, <1>11, <1>12, OneCallMoves

\* At the start the tables hold what was stored, and no call has arrived.
LEMMA InitEstablishesSupport == SupportInit => SupportInv
<1> SUFFICES ASSUME SupportInit PROVE SupportInv
  OBVIOUS
<1>1. /\ DOMAIN table = Kinds
      /\ \A k \in Kinds : table[k] = {s.row : s \in {t \in Stored : t.kind = k}}
  BY DEF SupportInit
<1>2. ASSUME NEW k \in Kinds
      PROVE  /\ IsFiniteSet(table[k])
             /\ \A r \in table[k] : /\ r.at \in 0 .. MaxClock
                                    /\ \A x \in r.cells : Len(x.path) > 0
                                    /\ r.id \notin Lookups
  <2> DEFINE rows == {t \in Stored : t.kind = k}
             f == [s \in rows |-> s.row]
  <2>1. IsFiniteSet(rows)
    <3>1. rows \in SUBSET Stored
      OBVIOUS
    <3> QED
      BY <3>1, RowAssumption, FS_Subset
  <2>2. f \in Surjection(rows, table[k])
    BY <1>1 DEF Surjection
  <2>3. IsFiniteSet(table[k])
    BY <2>1, <2>2, FS_Surjection
  <2> QED
    BY <1>1, <2>3, RowAssumption
<1>3. TablesFit
  BY <1>1, <1>2 DEF TablesFit, Kinds
<1>4. live \in SUBSET Actors /\ clock \in 0 .. MaxClock
  BY QueryAssumption, RowAssumption DEF SupportInit
<1>5. DOMAIN lookup = Lookups /\ \A c \in Lookups : lookup[c] = NoLookup
  BY DEF SupportInit
<1>6. /\ NoLookup.pc = "idle" /\ NoLookup.query = Null /\ NoLookup.items = {}
      /\ NoLookup.after = {} /\ NoLookup.present = {}
  BY DEF NoLookup
<1>7. \A c \in Lookups : CallFits(c)
  BY <1>5, <1>6 DEF CallFits, Active, Admitted, HasRead
<1>8. LaterCallsFindMore
  BY <1>5, <1>6 DEF LaterCallsFindMore
<1> QED
  BY <1>3, <1>4, <1>5, <1>7, <1>8, SupportInvByPart

\* Every step preserves the invariant.
LEMMA StepPreservesSupport == SupportInv /\ [SupportNext]_supportVars => SupportInv'
<1> SUFFICES ASSUME SupportInv, [SupportNext]_supportVars PROVE SupportInv'
  OBVIOUS
<1>0. /\ TablesFit /\ DOMAIN lookup = Lookups /\ live \in SUBSET Actors
      /\ clock \in 0 .. MaxClock /\ LaterCallsFindMore
      /\ \A c \in Lookups : CallFits(c)
  BY SupportInvByPart
<1>1. UNCHANGED table => TablesFit' /\ \A k \in Kinds : table[k] \subseteq table'[k]
  BY <1>0 DEF TablesFit
<1>2. ASSUME UNCHANGED lookup, live' \subseteq live, clock' \in 0 .. MaxClock,
             TablesFit', \A k \in Kinds : table[k] \subseteq table'[k]
      PROVE  SupportInv'
  <2>1. \A c \in Lookups : CallFits(c)'
    BY <1>0, <1>2, UndisturbedCall DEF TablesFit
  <2>2. LaterCallsFindMore'
    BY <1>0, <1>2 DEF LaterCallsFindMore, Browses
  <2>3. live' \in SUBSET Actors /\ DOMAIN lookup' = Lookups
    BY <1>0, <1>2
  <2> QED
    BY <1>2, <2>1, <2>2, <2>3, SupportInvNext
<1>3. ASSUME NEW c \in Lookups, NEW a \in Actors, NEW q \in Queries, Arrive(c, a, q)
      PROVE  SupportInv'
  BY <1>3, ArrivalPreservesSupport
<1>4. ASSUME NEW c \in Lookups, Admit(c)
      PROVE  SupportInv'
  BY <1>1, <1>4, MovingOnPreservesSupport DEF Admit, Admissible
<1>5. ASSUME NEW c \in Lookups, Refuse(c)
      PROVE  SupportInv'
  BY <1>1, <1>5, EndingPreservesSupport DEF Refuse
<1>6. ASSUME NEW c \in Lookups, List(c) \/ Get(c)
      PROVE  SupportInv'
  BY <1>6, ReadingPreservesSupport
<1>7. ASSUME NEW c \in Lookups, GetMissing(c)
      PROVE  SupportInv'
  BY <1>1, <1>7, EndingPreservesSupport DEF GetMissing
<1>8. ASSUME NEW c \in Lookups, lookup[c].pc = "read",
             table' = [table EXCEPT !["auditLog"] = @ \cup {AuditRow(c)}]
      PROVE  /\ TablesFit' /\ \A k \in Kinds : table[k] \subseteq table'[k]
             /\ AuditRow(c) \in table'["auditLog"]
             /\ lookup[c].actor \in Actors /\ lookup[c].query \in Queries
  <2>1. lookup[c].actor \in Actors /\ lookup[c].query \in Queries
    BY <1>0, <1>8 DEF CallFits, Active
  <2>2. /\ AuditRow(c).at \in 0 .. MaxClock /\ Harmless(AuditRow(c).cells)
        /\ \A x \in AuditRow(c).cells : Len(x.path) > 0
    BY <1>0, <2>1, AuditRowIsATrace
  <2>3. "auditLog" \in Kinds
    BY DEF Kinds
  <2>4. TablesFit' /\ \A k \in Kinds : table[k] \subseteq table'[k]
    BY <1>0, <1>8, <2>2, <2>3, AddedRow
  <2> QED
    BY <1>0, <1>8, <2>1, <2>3, <2>4 DEF TablesFit
<1>9. ASSUME NEW c \in Lookups, RecordRead(c)
      PROVE  SupportInv'
  <2>1. /\ lookup[c].pc = "read" /\ Goto(c, "recorded") /\ UNCHANGED <<live, clock>>
        /\ table' = [table EXCEPT !["auditLog"] = @ \cup {AuditRow(c)}]
    BY <1>9 DEF RecordRead
  <2>2. /\ TablesFit' /\ \A k \in Kinds : table[k] \subseteq table'[k]
        /\ AuditRow(c) \in table'["auditLog"]
        /\ lookup[c].actor \in Actors /\ lookup[c].query \in Queries
    BY <1>8, <2>1
  <2>3. /\ lookup'[c].actor = lookup[c].actor /\ lookup'[c].query = lookup[c].query
        /\ lookup'[c].items = lookup[c].items
    BY <1>0, <2>1, MovedCall DEF CallFits
  <2>4. Traced(c)'
    BY <2>2, <2>3, AuditRowIsATrace DEF Traced
  <2> QED
    BY <2>1, <2>2, <2>4, MovingOnPreservesSupport
<1>10. ASSUME NEW c \in Lookups, RecordReadFails(c)
       PROVE  SupportInv'
  BY <1>1, <1>8, <1>10, EndingPreservesSupport DEF RecordReadFails
<1>11. ASSUME NEW c \in Lookups, Answer(c)
       PROVE  SupportInv'
  BY <1>1, <1>11, MovingOnPreservesSupport DEF Answer
<1>12. ASSUME NEW c \in Lookups, AbandonLookup(c)
       PROVE  SupportInv'
  BY <1>1, <1>12, EndingPreservesSupport DEF AbandonLookup
<1>13. ASSUME NEW a \in Actors, EndSession(a)
       PROVE  SupportInv'
  BY <1>0, <1>1, <1>2, <1>13 DEF EndSession
<1>14. ASSUME NEW s \in Added, NEW at \in 0 .. clock, Insert(s, at)
       PROVE  SupportInv'
  <2> DEFINE r == [s.row EXCEPT !.at = at]
  <2>1. /\ s.kind \in Kinds /\ s.row.id \notin Lookups
        /\ DOMAIN s.row = {"id", "at", "page", "cells"}
        /\ \A x \in s.row.cells : Len(x.path) > 0
    BY RowAssumption
  <2>2. r.at = at /\ r.id = s.row.id /\ r.cells = s.row.cells
    BY <2>1
  <2>3. at \in 0 .. MaxClock
    BY <1>0, QueryAssumption
  <2>4. /\ table' = [table EXCEPT ![s.kind] = @ \cup {r}]
        /\ UNCHANGED <<live, lookup, clock>>
    BY <1>14 DEF Insert
  <2> HIDE DEF r
  <2>5. TablesFit' /\ \A k \in Kinds : table[k] \subseteq table'[k]
    BY <1>0, <2>1, <2>2, <2>3, <2>4, AddedRow
  <2> QED
    BY <1>0, <1>2, <2>4, <2>5
<1>15. CASE SupportTick
  BY <1>0, <1>1, <1>2, <1>15, QueryAssumption DEF SupportTick
<1>16. CASE UNCHANGED supportVars
  BY <1>0, <1>1, <1>2, <1>16 DEF supportVars
<1> QED
  BY <1>3, <1>4, <1>5, <1>6, <1>7, <1>9, <1>10, <1>11, <1>12, <1>13, <1>14, <1>15, <1>16
     DEF SupportNext

\* The invariant holds in every reachable state.
LEMMA SupportHolds == SupportSpec => []SupportInv
BY InitEstablishesSupport, StepPreservesSupport, PTL DEF SupportSpec

\* Tables, calls and clock have their types, and no answer holds more records
\* than were asked for.
THEOREM SupportTypesHold == SupportSpec => []SupportTypeOK
BY SupportHolds, PTL DEF SupportInv

\* However audit writes fail, processes die and sessions end: an answer is
\* only sent after its trace was written, and only to someone whose session
\* was usable when the call arrived.
THEOREM AnswersAreTraced == SupportSpec => []EveryAnswerIsTraced
<1>1. SupportInv => EveryAnswerIsTraced
  BY DEF SupportInv, LatecomersHaveNoSession, RecordedIsTraced, Admitted, Traced,
     EveryAnswerIsTraced
<1> QED
  BY <1>1, SupportHolds, PTL

\* Whatever rows are stored or inserted and whatever is searched for, nothing
\* the redaction forbids is in an answer or in an audit row of a lookup.
THEOREM NothingSensitiveIsSent == SupportSpec => []NothingSensitiveLeaves
<1>1. SupportInv => NothingSensitiveLeaves
  BY DEF SupportInv, HeldIsHarmless, NothingSensitiveLeaves
<1> QED
  BY <1>1, SupportHolds, PTL

\* For pages of any size over tables of any size: two list calls that follow
\* each other to the end of the table show every row that was there at the
\* first one and does not share its timestamp, whatever was inserted between.
THEOREM PagingMissesNothing == SupportSpec => []PagesMissNothing
<1>1. SupportInv => PagesMissNothing
  <2> SUFFICES ASSUME SupportInv, NEW a \in Lookups, NEW b \in Lookups, FollowsToTheEnd(a, b),
                      NEW r \in lookup[a].present,
                      \A s \in lookup[b].present : s.at = r.at => s.id = r.id
               PROVE  r.id \in Ids(lookup[a].items) \cup Ids(lookup[b].items)
    BY DEF PagesMissNothing
  <2> DEFINE p == lookup[a].query
             q == lookup[b].query
             before == lookup[a].present
             after == lookup[b].present
  <2>1. /\ lookup[a].pc = "answered" /\ lookup[b].pc = "answered" /\ a \in lookup[b].after
        /\ p.kind = q.kind /\ Browses(a) /\ Browses(b)
        /\ p.offset = 0 /\ q.offset = p.limit /\ Cardinality(after) <= p.limit + q.limit
    BY DEF FollowsToTheEnd, Browses
  <2>2. p \in Queries /\ q \in Queries
    BY <2>1 DEF SupportInv, CallsAreBound, Active
  <2>3. p.limit \in Nat /\ q.limit \in Nat /\ q.kind \in Kinds
    BY <2>2, QueryAssumption
  <2>4. HoldsAPage(a) /\ HoldsAPage(b) /\ IsFiniteSet(table[q.kind])
    BY <2>1, <2>3 DEF SupportInv, PagesAreExact, HasRead
  <2>5. before \subseteq after /\ after \in SUBSET table[q.kind]
    BY <2>1, <2>4 DEF SupportInv, LaterCallsFindMore, HasRead, HoldsAPage
  <2>6. IsFiniteSet(after) /\ \A s \in after : s.at \in Nat
    <3>1. \A s \in after : s.at \in 0 .. MaxClock
      BY <2>3, <2>5 DEF SupportInv, SupportTypeOK
    <3>2. IsFiniteSet(after)
      BY <2>4, <2>5, FS_Subset
    <3> QED
      BY <3>1, <3>2, QueryAssumption
  <2>7. PICK page \in Pages(before, 0, p.limit) : Ids(lookup[a].items) = Ids(page)
    BY <2>1, <2>4 DEF HoldsAPage
  <2>8. PICK page2 \in Pages(after, p.limit, q.limit) : Ids(lookup[b].items) = Ids(page2)
    BY <2>1, <2>4 DEF HoldsAPage
  <2> HIDE DEF p, q, before, after
  <2>9. r.id \in Ids(page) \cup Ids(page2)
    <3>1. r \in before /\ \A s \in after : s.at = r.at => s.id = r.id
      BY DEF before, after
    <3> QED
      BY <2>1, <2>3, <2>5, <2>6, <2>7, <2>8, <3>1, ConsecutivePagesMissNothing
  <2> QED
    BY <2>7, <2>8, <2>9
<1> QED
  BY <1>1, SupportHolds, PTL
==================================================
