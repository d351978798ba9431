SPECIFICATION Spec
CONSTANTS
    s1 = s1
    s2 = s2
    r1 = r1
    r2 = r2
    c1 = c1
    c2 = c2
    SubIds <- TwoSubs
    NoSub = NoSub
    Requests <- TwoRequests
    Codes <- NoCodes
    Price = 1
    Duration = 1
    Lead = 2
    CodeAmount = 1
    MaxUses <- OnceAndUnlimited
    Adjustments <- TopUp
    Patches <- AllPatches
    Revocations = 1
    Assignments = 1
    MaxLedger = 4
    MaxClock = 3
SYMMETRY RequestSymmetry
INVARIANT PeriodsArePaid
CHECK_DEADLOCK FALSE
