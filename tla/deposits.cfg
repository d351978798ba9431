\* Two intents compete for the one candidate that is not a whole amount; three transfers, pages of two; a request may wait an instant for the lock; a fair scanner.
CONSTANTS
    i1 = i1  i2 = i2
    Intents = {i1, i2}
    NoIntent = NoIntent
    Wants = {2}
    Unit = 3
    Attempts = 2
    MinMicro = 2
    Dust = 1
    Window = 1
    Hold = 1
    PageLimit = 2
    MaxDelay = 1
    MaxPerInstant = 1
    MaxChain = 3
    MaxClock = 3
    MaxFaults = 1
SPECIFICATION MCSpec
INVARIANTS TypeOK SettledOnce OccupanciesBarelyMeet CreditedToPayer WatermarkPassesOnlyJudged
PROPERTIES OnTimePaymentSettles EveryTransferIsJudged
