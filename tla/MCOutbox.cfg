SPECIFICATION FairSpec
CONSTANTS
    Events = {e1}
    Workers = {w1, w2}
    BatchSize = 1
    MaxRetries = 3
    MaxCrashes = 2
    MaxRequeues = 1
    None = None
INVARIANTS VerdictsAreEarned
PROPERTIES ProcessedIsFinal EventuallyAtRest
CHECK_DEADLOCK FALSE
