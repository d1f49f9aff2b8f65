CONSTANTS
    Keys = {"a", "b"}
    Missing = Missing
    Cap = 2
    Numerals <- MCNumerals
    kMsPerSec = 2
    Int64Max = 7
    Requests <- MCRequests
    expireIntervalMs = 2
    TickMod = 3
    FirstNow = 1
    MaxClock = 4
SPECIFICATION Spec
INVARIANTS FreshClock SweepKeepsUp SetAsDocumented ExpiryRoundTrips CountsAreExact
PROPERTIES SweepNotStarved
