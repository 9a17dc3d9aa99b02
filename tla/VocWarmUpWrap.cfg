\* The initializing flag against the real time since sgp30_init, with a
\* 2-bit tick counter so that tick + warm-up can wrap; no bus faults.
CONSTANTS
    v1 = v1
    v2 = v2
    NoReading = NoReading
    Garbage = Garbage
    NoComp = NoComp
    Values <- MCValues
    MaxFaults = 0
    MaxBusy = 0
    StuckBusy = FALSE
    TickBits = 2
    WarmUpTicks = 2

SPECIFICATION Spec

PROPERTY PublishedFlagMatchesElapsed
