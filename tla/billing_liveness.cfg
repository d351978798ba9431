SPECIFICATION FairSpec
CONSTANTS
    s1 = s1
    s2 = s2
    r1 = r1
    r2 = r2
    c1 = c1
    c2 = c2
    SubIds <- TwoSubs
    NoSub = NoSub
    Requests <- OneRequest
    Codes <- NoCodes
    Price = 1
    Duration = 1
    Lead = 2
    CodeAmount = 1
    MaxUses <- OnceAndUnlimited
    Adjustments <- TopUp
    Patches <- NoPatches
    Revocations = 0
    Assignments = 0
    MaxLedger = 4
    MaxClock = 3
PROPERTY DueIsRenewed
CHECK_DEADLOCK FALSE
