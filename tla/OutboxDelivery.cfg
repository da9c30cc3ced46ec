SPECIFICATION FairSpec
CHECK_DEADLOCK FALSE
CONSTANTS
    Events = {e1, e2, e3}
    Workers = {w1, w2}
    BatchSize = 2
    MaxFaults = 2
INVARIANT PublishedWasDelivered
INVARIANT DuplicatesNeedAFault
PROPERTY ImplementsAtLeastOnce
PROPERTY BacklogDrains
