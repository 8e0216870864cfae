CONSTANTS
    None = None
    b1 = b1  b2 = b2  k1 = k1  x = x  m1 = m1  m2 = m2  i1 = i1
    h1 = h1  h2 = h2  h3 = h3  h4 = h4
    Buyers = {b1, b2}
    Keys = {k1}
    Details = {x}
    Phoned = {x}
    Amounts = {m1}
    Requests = {r1, r2}
    Deliveries = {d1}
    EventIds = {i1}
    Hashes = {h1, h2, h3, h4}
    Inputs <- SharedKey
    Envelopes <- ManyEvents
SPECIFICATION FairSpec
CHECK_DEADLOCK FALSE
INVARIANTS
    TypeOK
PROPERTIES
    OneIntentPerKey
    HandlersFinish

