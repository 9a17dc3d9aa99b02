\* The input path with a 2-slot queue and 4 input events: enough for a put
\* to block on a full queue both before and after the Back press.
CONSTANTS
    QueueSize = 2
    MaxEvents = 4

SPECIFICATION Spec

PROPERTY BackNeverLost

\* The main thread and the GUI thread can wait on each other for good (the
\* event_exit_hang run); that state has no enabled step.
CHECK_DEADLOCK FALSE
