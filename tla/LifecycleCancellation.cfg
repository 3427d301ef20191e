SPECIFICATION FairSpec
CONSTANTS
    r1 = r1
    r2 = r2
    None = None
    Row <- Rows
    StripeRow <- OneStripe
    Process = {j1}
    Redeliveries = 1
    Period = 1
    MaxTime = 3
PROPERTY CancellationStands
CHECK_DEADLOCK FALSE
