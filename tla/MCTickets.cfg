SPECIFICATION PartSpec
CONSTANTS
    None = None
    Intents = {k1}
    Issuances = {i1, i2}
    Scans = {s1, s2}
    ScanInputs <- ScansAtGates
    MaxTime = 1
    u1 = u1
    u2 = u2
    Users = {u1, u2}
    RoleOf <- MCRoleOf
    Organizers = {o1}
    Events = {e1}
    Calls = {1, 2, 3, 4}
    Dates = {1, 2, 3}
    Drafts <- MCDrafts
    Edits <- MCEdits
    Profiles = {p1, p2}
    PilotEvents = {e1}
    PilotOrganizers = {}
    PaymentsEnabled = TRUE
    Nothing = Nothing
SYMMETRY Symmetric
CHECK_DEADLOCK FALSE
INVARIANTS
    AdmittedOnce
    AcceptedHadTheRight
    CatalogTypeOK
    DatesInOrder
    NoSaleAfterCancellation
PROPERTIES
    TicketIsNeverReissued
    CancelledIsFrozen
    DecisionsStand
