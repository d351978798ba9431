SPECIFICATION FairSpec
CONSTANTS
    n1 = n1
    n2 = n2
    i1 = i1
    i2 = i2
    r1 = r1
    u1 = u1
    a1 = a1
    a2 = a2
    Owners <- OneAccount
    NoUser = NoUser
    Nodes = {n1}
    IPs = {i1}
    None = None
    Requests = {r1}
    StickyTTL = 1
    Interval = 1
    AvoidPreviousIP = TRUE
    MaxTombstones = 1
    OnLeaseEvent = TRUE
    BulkDelete = TRUE
    MaxDelay = 1
    MaxClock = 2
    MaxChurn = 0
    MaxFaults = 1
    MaxRestarts = 1
INVARIANT NoGhostRows
PROPERTY ExpiredLeaseGoes
PROPERTY RemovedLeavesDisk
CHECK_DEADLOCK FALSE
