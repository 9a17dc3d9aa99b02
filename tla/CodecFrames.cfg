\* The AHT10 and SGP30 decoders, the SCD30 checksums and the humidity encoder over edge-case
\* frames, with humidity arguments inside the SGP30's range.
CONSTANTS
    Codes20 <- MCCodes20
    Words <- MCWords
    FixedPoints <- MCFixedPoints

SPECIFICATION Spec

INVARIANT Aht10DecodeMatchesLayout
INVARIANT Sgp30DecodeMatchesLayout
INVARIANT HumidityArgMatches
INVARIANT CommandChecksumsValid
INVARIANT ReadyIffValidOne
