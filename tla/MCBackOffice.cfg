SPECIFICATION PartSpec
CONSTANTS
    Sessions = {s1}
    Devices = {d1, d2}
    Refreshes = {c1, c2, c3}
    Checks = {k1}
    Revokers = {v1}
    Ttl = 1
    MaxTime = 2
    None = None
    admin = admin
    Actors = {admin, user}
    TokenRole <- MCTokenRole
    Lookups = {l1, l2}
    Queries <- MCQueries
    Stored <- MCStored
    Added <- MCAdded
    Uuids = {"t-1", "t-9"}
    EnvSecrets = {"db-url"}
    RiskyKeys = {"X-Session-Token", "Api_Key"}
    StartTime = 2
    MaxClock = 3
    Null = Null
SYMMETRY Symmetry
INVARIANTS OneRotationPerToken RevocationsStick OldTokensAreDead
    SupportTypeOK EveryAnswerIsTraced NothingSensitiveLeaves PagesMissNothing
PROPERTIES EndedStaysEnded
CHECK_DEADLOCK FALSE
