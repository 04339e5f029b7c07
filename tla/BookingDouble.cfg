SPECIFICATION Spec
CONSTANTS
    c1 = c1
    c2 = c2
    Bookings = {b1, b2}
    Requests = {q1, q2}
    Cals = {c1}
    OthersCals = {}
    Grid = {1, 3}
    Meetings <- MCMeetings
    Duration = 2
    BufferBefore = 0
    BufferAfter = 0
    NoTime = NoTime
    NoBooking = NoBooking
    MaxMishaps = 0
    MaxEdits = 0
INVARIANTS
    NoDoubleBooking
CHECK_DEADLOCK FALSE
