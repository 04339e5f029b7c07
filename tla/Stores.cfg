SPECIFICATION StoresSpec
CONSTANTS
    a1 = a1  a2 = a2  a3 = a3  m1 = m1  m2 = m2  s1 = s1
    Attempts = {a1, a2, a3}
    Requests = {r1}
    Mails = {m1, m2}
    MailOf <- TwiceAndAnswer
    Sent = {m2}
    Parent <- AnswerTo
    Subject <- OneSubject
    RulesOf <- FileOrDelete
    Blocked = {}
    Bulk = {}
    MailDbs = {primary, overflow}
    Primary = primary
    Ops = {"open", "mute", "delete"}
    NoId = NoId
    SweepBatch = 1
    Undeletable = {}
    MaxMishaps = 0
    x1 = x1  x2 = x2  l1 = l1  l2 = l2  l3 = l3  d1 = d1  d2 = d2
    Loaders = {x1, x2}
    Letters = {l1, l2, l3}
    Topic <- TopicOf
    Written <- DayOf
    Answers <- Refers
    Files <- MboxFiles
    Stores <- StoreOrder
    Fortnight = 1
    LastDay = 2
    MaxJobs = 3
    MaxFailures = 1
INVARIANTS AcceptedIsStored IndexCounts ImportedOnce
SYMMETRY Alike
CHECK_DEADLOCK FALSE
