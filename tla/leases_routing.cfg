SPECIFICATION Spec
CONSTANTS
    n1 = n1
    n2 = n2
    i1 = i1
    i2 = i2
    r1 = r1
    u1 = u1
    a1 = a1
    a2 = a2
    Owners <- SingleTenants
    NoUser = NoUser
    Nodes = {n1, n2}
    IPs = {i1, i2}
    None = None
    Requests = {r1}
    StickyTTL = 1
    Interval = 1
    AvoidPreviousIP = TRUE
    MaxTombstones = 1
    OnLeaseEvent = FALSE
    BulkDelete = FALSE
    MaxDelay = 0
    MaxClock = 2
    MaxChurn = 1
    MaxFaults = 0
    MaxRestarts = 0
INVARIANT TypeOK
INVARIANT LoadMatchesLeases
PROPERTY StickyEgress
PROPERTY NotRotatedTwice
PROPERTY RotatedIPAvoided
SYMMETRY Symmetry
CHECK_DEADLOCK FALSE
