SPECIFICATION Spec
CONSTANTS
    c1 = c1
    c2 = c2
    Bookings = {b1, b2}
    Requests = {q1, q2}
    Cals = {c1, c2}
    OthersCals = {c2}
    Grid = {1, 3}
    Meetings <- MCMeetings
    Duration = 1
    BufferBefore = 1
    BufferAfter = 2
    NoTime = NoTime
    NoBooking = NoBooking
    MaxMishaps = 1
    MaxEdits = 1
SYMMETRY Symmetry
INVARIANTS
    BookingsApart
    OrphansByMishap
    StoresAgree
PROPERTIES
    CancelledIsFinal
CHECK_DEADLOCK FALSE
