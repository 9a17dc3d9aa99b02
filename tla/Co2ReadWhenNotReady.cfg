\* Spec section 2 says get-measurement does not read the measurement when the
\* data-ready flag is false; scd30_get_measurement tests the pointer `ready`
\* and always reads.
CONSTANTS
    v1 = v1
    v2 = v2
    v3 = v3
    NoReading = NoReading
    Values <- MCValues
    MaxFaults = 0

SPECIFICATION Spec

PROPERTY NoReadWhenNotReady
