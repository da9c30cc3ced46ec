SPECIFICATION RacingSpec
CHECK_DEADLOCK FALSE
CONSTANTS
    Envs = {e1}
    Decoms = {d1, d2}
    Bookings = {b1}
    Requests = {r1}
    Steps = {}
    Notices = {0}
    DayLength = 1
    MaxTime = 2
    HandEdits = {}
    None = none
    Clients = {q1, q2}
SYMMETRY RacingSymmetry
INVARIANT LateBookingsPredateTheWarning
