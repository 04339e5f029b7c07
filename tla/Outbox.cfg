SPECIFICATION FairSpec
CONSTANTS
    Msgs = {m1, m2}
    Ids = {1, 2}
    NoMsg = NoMsg
    None = None
    MaxPresses = 2
    MaxMishaps = 1
INVARIANTS
    LostByMishap
    OneCopyPerPress
PROPERTIES
    ImplementsOutgoingMail
    PendingIsSettled
CHECK_DEADLOCK FALSE
