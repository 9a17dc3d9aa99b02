\* The humidity encoder over every absolute humidity the worker can compute
\* from in-range AHT10 readings.
CONSTANTS
    Codes20 <- MCCodes20
    Words <- MCWords
    FixedPoints <- MCFixedPointsFull

SPECIFICATION Spec

INVARIANT HumidityArgMatches
