\* Every loop makes progress, until shutdown() begins, once the database answers.
CONSTANTS
    b1 = b1  b2 = b2  k1 = k1  u1 = u1  s1 = s1  s2 = s2
    Users = {u1}
    NoUser = NoUser
    NoSub = NoSub
    Buckets = {b1}
    Keys = {k1}
    KeyOf <- OneKey
    UserOf <- OneUser
    SubIds = {s1}
    Admins = {a1}
    PeriodLength = 1
    MaxMoved = 1
    MaxClock = 2
    MaxCrashes = 1
    MaxRequests = 1
    MaxFaults = 1
SPECIFICATION MCFairSpec
PROPERTIES CountedIsEventuallyRecorded DuePeriodsRollOver ReseedEnds
CHECK_DEADLOCK FALSE
