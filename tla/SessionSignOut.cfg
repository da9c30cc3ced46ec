\* Signing out after the access token has expired.
SPECIFICATION Spec
CONSTANTS
    Requests = {r1}
    Tenants = {t1}
    MaxIssued = 2
    MaxOpen = 2
CHECK_DEADLOCK FALSE
PROPERTIES
    SignOutRevokes
