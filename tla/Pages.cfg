SPECIFICATION PagesSpec
CONSTANTS
    u1 = u1
    u2 = u2
    t1 = t1
    d1 = d1
    d2 = d2
    n1 = n1
    n2 = n2
    w1 = w1
    w2 = w2
    m1 = m1
    m2 = m2
    Users = {u1, u2}
    Creator = u1
    Nobody = Nobody
    Workers = {w1, w2}
    MaxRequests = 4
    Threads = {t1}
    Columns = {d1, d2, n1, n2}
    Defaults <- MCDefaults
    MaxColumns = 3
    Conversations = {m1, m2}
    DeckOrder <- MCDeck
    Slots = {c1, c2}
    MaxDeeds = 4
    MaxFailures = 1
    MaxArrivals = 1
SYMMETRY Interchangeable
INVARIANTS
    OwnerRemains
    ResolvedAsSeen
    PageAgrees
    LastWishStands
    HiddenIsDone
    FlagsAgree
    CardsAreDecided
PROPERTY DeletedStaysGone
CHECK_DEADLOCK FALSE
