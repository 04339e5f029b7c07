SPECIFICATION FairSpec
CONSTANTS
    a1 = a1  a2 = a2  a3 = a3  m1 = m1  m2 = m2  s1 = s1
    Attempts = {a1, a3}
    Requests = {r1}
    Mails = {m1, m2}
    MailOf <- OnceAndAnswer
    Sent = {}
    Parent <- AnswerTo
    Subject <- OneSubject
    RulesOf <- AnyRule
    Blocked = {m2}
    Bulk = {m1}
    MailDbs = {primary, overflow}
    Primary = primary
    Ops <- AllOps
    NoId = NoId
    SweepBatch = 1
    Undeletable = {a3}
    MaxMishaps = 1
PROPERTIES StoredIsListed QueuedIsSwept
INVARIANTS StoredHasBlobs
CHECK_DEADLOCK FALSE
