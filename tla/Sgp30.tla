-------------------------------- MODULE Sgp30 --------------------------------
(***************************************************************************)
(* The SGP30 VOC driver (drivers/sgp30.c) and the general-call reset       *)
(* (drivers/general_call.c) as the results of their bus transactions.      *)
(***************************************************************************)
EXTENDS Naturals

\* general_call_reset: one byte 0x06 to address 0; every compliant device
\* on the bus, the SGP30 included, soft-resets.
GeneralCallReset(txOk) == txOk

\* sgp30_init: probe the address, send "init air quality", sleep 10 ms,
\* record the end of the warm-up window; the first failure returns false.
Sgp30Init(probeOk, initAirQualityOk) == probeOk /\ initAirQualityOk

\* sgp30_get_measurement: send "measure air quality", sleep 12 ms, read the
\* two (word, crc) pairs, whose CRCs are not checked; the outputs are only
\* written when the read succeeds.
Sgp30GetMeasurement(measureOk, readOk) == measureOk /\ readOk
=============================================================================
