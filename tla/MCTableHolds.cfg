SPECIFICATION Spec
CONSTANTS
    Actors = {a1, a2, a3}
    Keys = {k1}
    Tables = {t1, t2}
    Readers = {g1}
    Duration = 1
    MaxTime = 3
    None = None
SYMMETRY Symmetry
INVARIANTS OneLiveHold UnavailableHasNoHold
PROPERTY HoldsAreKept
CHECK_DEADLOCK FALSE
