SPECIFICATION CalendarSpec
CONSTANTS
    DayLen = 8
    Duration = 2
    Step = 1
    BufferBefore = 1
    BufferAfter = 2
    MinNotice = 1
    BookingWindow = 18
    ZoneAt = 12
    OffsetBefore <- MinusTwo
    OffsetAfter <- MinusThree
    Weekly = Weekly
    Dates <- MCDates
    Rules <- MCRules
    Overrides <- MCOverrides
    Meetings <- MCMeetings
    Ranges <- MCRanges
    LastTick = 26
    Ids = {e1, e2}
    Tabs = {t1}
    Chips = {10}
    DefaultChip = 10
    WeekLen = 3
    Firsts <- MCFirsts
    YearMonths = 2
    Cap = 4
    StartDays = {4}
    Durations = {2}
    Views = {0, 3, 5, 8, 13}
    Customs <- MCCustoms
    MaxRequests = 3
    MaxLapses = 1
SYMMETRY Symmetry
INVARIANTS
    CommitIsFree
    PageAgreesWithCommit
    OffersOpenHours
    ListingFollowsRule
PROPERTIES
    SplitLosesNothing
CHECK_DEADLOCK FALSE
