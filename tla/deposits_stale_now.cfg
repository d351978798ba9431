\* A request reads the clock, waits for the write lock and inserts one instant later.
CONSTANTS
    i1 = i1  i2 = i2
    Intents = {i1, i2}
    NoIntent = NoIntent
    Wants = {3}
    Unit = 3
    Attempts = 1
    MinMicro = 3
    Dust = 1
    Window = 1
    Hold = 1
    PageLimit = 2
    MaxDelay = 1
    MaxPerInstant = 1
    MaxChain = 2
    MaxClock = 4
    MaxFaults = 1
SPECIFICATION Spec
INVARIANTS CreditedToOccupant
