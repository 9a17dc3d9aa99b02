\* Stop against an AHT10 that may answer busy to every status poll: the
\* polling loops have no bound, so the worker never reaches is_started.
CONSTANTS
    v1 = v1
    v2 = v2
    NoReading = NoReading
    Garbage = Garbage
    NoComp = NoComp
    Values <- MCValues
    MaxFaults = 0
    MaxBusy = 0
    StuckBusy = TRUE
    TickBits = 1
    WarmUpTicks = 1

SPECIFICATION Spec

PROPERTY StopTerminates
