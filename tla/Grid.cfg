\* Every page with a grid, up to two rows, two things done by the user.
SPECIFICATION Spec
CONSTANTS
    MaxRows = 2
    MaxInputs = 2
CHECK_DEADLOCK FALSE
INVARIANTS
    QuietBoxMatchesUrl
    QuietGridAnswersUrl
    PageExists
    ControlsTellTheTruth
PROPERTIES
    SettlesDown
