SPECIFICATION Spec
CONSTANTS
    Items = {i1, i2}
    MaxOpenings = 3
    MaxCalls = 2
CHECK_DEADLOCK FALSE
INVARIANTS
    OneSubmitPerItem AnswersMeetTheirOpening 
    FailureIsSeen ErrorIsFresh NeverStuck
 
