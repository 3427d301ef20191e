SPECIFICATION FairSpec
CONSTANTS
    k1 = k1
    k2 = k2
    p1 = p1
    p2 = p2
    None = None
    Client = {k1, k2}
    Payment <- Payments
    amount <- Amounts
    Total = {1, 2}
    Patched = {"DRAFT"}
INVARIANTS TypeOK PaidIsSum DueIsRest
PROPERTY RequestsEnd
CHECK_DEADLOCK FALSE
