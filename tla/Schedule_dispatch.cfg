CONSTANTS
    s1 = s1
    s2 = s2
    s3 = s3
    Sends = {s1, s2, s3}
    None = None
    Limit = 2
    Horizon = 1
    MaxFaults = 1
SPECIFICATION FairSpec
INVARIANTS
    TypeOK
    ResentOnlyAfterLoss
    SentWasDelivered
PROPERTIES
    SettledStaysUnsent
    DueSendsSettle
    KeepsPromise
CHECK_DEADLOCK FALSE
