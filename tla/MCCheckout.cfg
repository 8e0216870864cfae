SPECIFICATION Spec
CONSTANTS
    Calls = {c1, c2}
    Keys = {k1, k2}
    Reservations = {r1, r2}
    p1 = p1  p2 = p2
    Payments = {p1, p2}
    ProviderOf <- OneOfEach
    Verifications = {v1, v2}
    MaxCredits = 2
    None = None
SYMMETRY Symmetry
INVARIANTS OneOrderPerKey CreditedOnce PaidHasCredit OnlyPaymentDecides
CHECK_DEADLOCK FALSE
