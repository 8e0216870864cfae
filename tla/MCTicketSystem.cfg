CONSTANTS
    None = None
    b1 = b1  k1 = k1  x = x  m1 = m1  m2 = m2  h1 = h1
    Buyers = {b1}
    Keys = {k1}
    Details = {x}
    Phoned = {x}
    Amounts = {m1, m2}
    Requests = {r1, r2}
    Deliveries = {d1}
    EventIds = {}
    Hashes = {h1}
    Inputs <- OneInput
    Envelopes <- OneEvent
    Issuances = {i1}
    Scans = {s1, s2}
    ScanInputs <- OwnToken
    MaxTime = 0
SPECIFICATION SystemSpec
SYMMETRY Symmetric
CHECK_DEADLOCK FALSE
PROPERTIES
    ImplementsSingleEntry
    KeepsTicketAssumption
