\* One decommission, two bookings, one step, two instants a day.
SPECIFICATION Spec
CHECK_DEADLOCK FALSE
CONSTANTS
    Envs = {e1}
    Decoms = {d1}
    Bookings = {b1, b2}
    Requests = {r1}
    Steps = {s1}
    Notices = {0, 1}
    DayLength = 2
    MaxTime = 2
    HandEdits = {"active", "decommissioned"}
    None = none
SYMMETRY DecommissionSymmetry
INVARIANT DeadlineIsADay
INVARIANT WorklistShowsTheState
INVARIANT ChecklistNeverFreezes
INVARIANT LateBookingsPredateTheWarning
PROPERTY TeardownDateOnlyMovesOut
