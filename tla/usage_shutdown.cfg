\* A clean shutdown with bytes still in memory.
CONSTANTS
    b1 = b1  b2 = b2  k1 = k1  u1 = u1  s1 = s1  s2 = s2
    Users = {u1}
    NoUser = NoUser
    NoSub = NoSub
    Buckets = {b1}
    Keys = {k1}
    KeyOf <- OneKey
    UserOf <- OneUser
    SubIds = {s1}
    Admins = {}
    PeriodLength = 1
    MaxMoved = 1
    MaxClock = 1
    MaxCrashes = 1
    MaxRequests = 0
    MaxFaults = 0
SPECIFICATION Spec
INVARIANTS CleanShutdownLosesNothing
CHECK_DEADLOCK FALSE
