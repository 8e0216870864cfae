CONSTANTS
    None = None
    Reservations = {r1, r2}
    Orders = {o1, o2}
    Sweeps = {w1}
    Releases = {p1}
    Issuers = {i1, i2}
    Quantities = {1, 2}
    Capacity = 2
    MinTight = 0
    SweepLimit = 1
    HoldTtls = {1}
    MaxAttempts = 2
    MaxTime = 2
SPECIFICATION Spec
SYMMETRY Symmetric
CHECK_DEADLOCK FALSE
INVARIANTS TypeOK CacheCoversHolds IssuedOnce SoldCountAgrees OnTimeSalesFit
