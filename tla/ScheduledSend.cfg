SPECIFICATION FairSpec
CONSTANTS
    Rows = {r1, r2}
    Ticks = {t1, t2}
    Clients = {c1}
    None = None
    DispatchBatch = 1
    MaxTime = 2
    MaxMishaps = 1
INVARIANTS
    OneWithdrawalWins 
PROPERTIES
    ImplementsOutgoingMail
    DueIsFinalised
CHECK_DEADLOCK FALSE
