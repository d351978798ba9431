SPECIFICATION Spec
CONSTANTS
    s1 = s1
    s2 = s2
    r1 = r1
    r2 = r2
    c1 = c1
    c2 = c2
    SubIds <- TwoSubs
    NoSub = NoSub
    Requests <- OneRequest
    Codes <- TwoCodes
    Price = 1
    Duration = 1
    Lead = 2
    CodeAmount = 1
    MaxUses <- OnceAndUnlimited
    Adjustments <- TopUps
    Patches <- AllPatches
    Revocations = 1
    Assignments = 1
    MaxLedger = 3
    MaxClock = 2
INVARIANT TypeOK
INVARIANT BalanceIsLedger
INVARIANT RequestSettlesOnce
INVARIANT CodePaysWhatItCounts
CHECK_DEADLOCK FALSE
