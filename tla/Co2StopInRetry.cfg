\* Spec section 8 says a stop during the retry delay exits without another
\* bus transaction; the worker goes from the delay straight to scd30_init.
CONSTANTS
    v1 = v1
    v2 = v2
    v3 = v3
    NoReading = NoReading
    Values <- MCValues
    MaxFaults = 1

SPECIFICATION Spec

PROPERTY NoBusAfterStopInRetry
