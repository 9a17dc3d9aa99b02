\* The VOC worker, its start/stop calls and the Measurement Slot: one failed
\* transaction, an AHT10 that answers busy at most once in a row, and a
\* 1-bit tick counter with a 1-tick warm-up.
CONSTANTS
    v1 = v1
    v2 = v2
    NoReading = NoReading
    Garbage = Garbage
    NoComp = NoComp
    Values <- MCValues
    MaxFaults = 1
    MaxBusy = 1
    StuckBusy = FALSE
    TickBits = 1
    WarmUpTicks = 1

SPECIFICATION Spec

INVARIANT TypeOK
PROPERTY SlotNeverTorn
INVARIANT CompensationMatchesReading

PROPERTY NoPublishAfterStop
PROPERTY StopTerminates
PROPERTY RecoversAfterFaults
PROPERTY ImplementsAcquisitionWorker
