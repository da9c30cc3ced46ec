\* A link to a page, opened after the list was narrowed.
SPECIFICATION Spec
CONSTANTS
    MaxRows = 2
    MaxInputs = 1
CHECK_DEADLOCK FALSE
PROPERTIES
    DeepLinkKept
