\* A key on two platforms; any two of a request, a fault, a restart and a rollover.
CONSTANTS
    b1 = b1  b2 = b2  k1 = k1  u1 = u1  s1 = s1  s2 = s2
    Users = {u1}
    NoUser = NoUser
    NoSub = NoSub
    Buckets = {b1, b2}
    Keys = {k1}
    KeyOf <- TwoPlatformKeys
    UserOf <- TwoPlatformUsers
    SubIds = {s1, s2}
    Admins = {a1}
    PeriodLength = 1
    MaxMoved = 1
    MaxClock = 2
    MaxCrashes = 1
    MaxRequests = 1
    MaxFaults = 1
SPECIFICATION MCSpec
INVARIANTS TypeOK KeyTotalIsSumOfBuckets BytesConserved NeverOverbilled ChargesAreRecorded AggregateCoversDisk
SYMMETRY Symmetry
CHECK_DEADLOCK FALSE
