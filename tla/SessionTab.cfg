\* One tab, two tenants to sign in as, one request of the pages besides /auth/me
\* and /auth/logout, two calls open at once.
SPECIFICATION Spec
CONSTANTS
    Requests = {r1}
    Tenants = {t1, t2}
    MaxIssued = 2
    MaxOpen = 2
CHECK_DEADLOCK FALSE
INVARIANTS
    NeverTakenForTheft
    RoleCheckHasUser
    BannerTellsTheTruth
PROPERTIES
    WaitersAreReleased
