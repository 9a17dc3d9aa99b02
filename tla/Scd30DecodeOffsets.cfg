\* The SCD30 measurement decode (SCD30_GET_UINT32 with the unparenthesised
\* WORDS_TO_BYTES) over frames of six distinct words.
CONSTANTS
    Codes20 <- MCCodes20
    Words <- MCWords
    FixedPoints <- MCFixedPoints

SPECIFICATION Spec

INVARIANT Scd30MeasurementMatchesLayout
