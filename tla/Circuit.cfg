SPECIFICATION Spec
CONSTANTS
    s1 = s1
    s2 = s2
    s3 = s3
    None = None
    Server <- Servers
    FailureThreshold = 2
    SuccessThreshold = 2
    Timeout = 1
    ResetTimeout = 2
SYMMETRY Alike
INVARIANTS TypeOK DebtsArePaid
