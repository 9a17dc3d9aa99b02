-------------------------------- MODULE Scd30 --------------------------------
(***************************************************************************)
(* The SCD30 CO2 sensor driver (drivers/scd30.c) as the results of its     *)
(* bus transactions.  Each operator takes the outcome of every bus call    *)
(* the driver makes (furi_hal_i2c_tx / _rx / _trx return a bool) and the   *)
(* bytes the device answers, and returns what the driver returns.  The     *)
(* float decode of the measurement words is abstracted: a successful read  *)
(* yields a fresh reading, chosen by the caller.                           *)
(***************************************************************************)
EXTENDS Naturals

\* The commands that carry an argument word, as the byte arrays the tx
\* wrappers send: opcode, argument word, and its checksum written as a literal.
\* Mutant: the checksum of interval 2 computed with initial value 0x00.
Scd30CmdSetIntervalCrcInitZero == <<70, 0, 0, 2, 98>>

\* SCD30_CMD_SET_MEASUREMENT_INTERVAL_TO_MIN: 0x4600, interval 2 s, 0xE3.
Scd30CmdSetMeasurementIntervalToMin == <<70, 0, 0, 2, 227>>

\* SCD30_CMD_TRIGGER_CONTINUOUS_MEASUREMENT: 0x0010, no pressure
\* compensation (0), 0x81.
Scd30CmdTriggerContinuousMeasurement == <<0, 16, 0, 0, 129>>

\* Mutant: the expected checksum of 0x0001 computed with initial value 0x00.
CrcOfOneInitZero == 49

\* The CRC-8 byte that accompanies the word 0x0001 (SCD30_GET_CRC compared
\* with 0xB0) and the one that accompanies 0x0000.
CrcOfOne == 176
CrcOfZero == 129
CrcValues == {CrcOfOne, CrcOfZero}

\* scd30_get_data_ready_status, decode step: ready only if the word is 1 and
\* its checksum byte is exactly 0xB0; any other CRC means "not ready".
DataReady(word, crc) == word = 1 /\ crc = CrcOfOne

\* scd30_init: trigger continuous measurement, then set the interval to the
\* minimum; either failing fails the init (the second is not sent after a
\* failed first, which leaves the result the same).
Scd30Init(triggerOk, intervalOk) == triggerOk /\ intervalOk

\* scd30_read_measurement: one trx of the read command and 18 bytes; the
\* outputs are written only when it succeeds.
Scd30ReadMeasurement(trxOk) == trxOk

\* scd30_get_measurement: the data-ready request (tx, then rx of one word);
\* a failure of either leaves *ready as it was.  Then `if(!ready)` tests
\* the pointer argument, never NULL, not the flag it points to: the read
\* (trx, CRCs not checked) is issued whether or not the device is ready.
\* `read` says whether the measurement outputs were overwritten.
Scd30GetMeasurement(txOk, rxOk, word, crc, trxOk, oldReady) ==
    IF ~(txOk /\ rxOk)
    THEN [success |-> FALSE, ready |-> oldReady, read |-> FALSE]
    ELSE [success |-> Scd30ReadMeasurement(trxOk), ready |-> DataReady(word, crc),
          read |-> Scd30ReadMeasurement(trxOk)]

\* scd30_deinit: soft reset && stop continuous measurement.
Scd30Deinit(resetOk, stopOk) == resetOk /\ stopOk
=============================================================================
