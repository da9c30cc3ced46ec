\* Every pair of operations of every slice, two keys, three calls.
SPECIFICATION Spec
CONSTANTS
    Keys = {k1, k2}
    MaxCalls = 3
SYMMETRY KeySymmetry
CHECK_DEADLOCK FALSE
INVARIANTS
    NewestAnswerShown
    AbortsAreSilent
    OwnersKeptApart
    FailureStaysVisible
    WritesNeverOpen
    QuietMeansIdle
