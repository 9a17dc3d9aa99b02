-------------------------------- MODULE Aht10 --------------------------------
(***************************************************************************)
(* The AHT10 temperature/humidity driver (drivers/aht10.c): the decode of  *)
(* its status byte and the results of the bus calls that precede its       *)
(* status-polling loops.  The loops themselves (aht10_init and             *)
(* aht10_get_measurement poll the status byte, sleeping 10 ms while the    *)
(* busy bit is set) are steps of the worker, since they may go on for any  *)
(* number of rounds with the bus held.                                     *)
(***************************************************************************)
EXTENDS Naturals, Bitwise

AHT10_STATUS_MASK_BUSY       == 128   \* 0b10000000
AHT10_STATUS_MASK_CALIBRATED == 8     \* 0b00001000

\* The status bytes the model lets the device answer: every combination of
\* the two bits the driver looks at.
StatusBytes == {0, AHT10_STATUS_MASK_CALIBRATED, AHT10_STATUS_MASK_BUSY,
                AHT10_STATUS_MASK_BUSY + AHT10_STATUS_MASK_CALIBRATED}

IsBusy(status)       == (status & AHT10_STATUS_MASK_BUSY) > 0
IsCalibrated(status) == (status & AHT10_STATUS_MASK_CALIBRATED) > 0

\* aht10_init up to its status loop: probe the address, soft reset, sleep
\* 20 ms, send the initialize command; the first failure returns false.
Aht10InitStart(probeOk, resetOk, initializeOk) ==
    probeOk /\ resetOk /\ initializeOk

\* aht10_deinit: a soft reset.
Aht10Deinit(resetOk) == resetOk
=============================================================================
