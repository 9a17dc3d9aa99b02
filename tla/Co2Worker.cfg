\* The CO2 worker, its start/stop calls and the Measurement Slot: safety and
\* liveness with up to three failed bus transactions.
CONSTANTS
    v1 = v1
    v2 = v2
    v3 = v3
    NoReading = NoReading
    Values <- MCValues3
    MaxFaults = 3

SPECIFICATION Spec

PROPERTY SlotNeverTorn

PROPERTY NoPublishAfterStop
PROPERTY FailureReported
PROPERTY RecoversAfterFaults
PROPERTY StopTerminates
PROPERTY ImplementsAcquisitionWorker
