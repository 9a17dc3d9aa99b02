\* co2_monitor_app turns the LED off between sensor_worker_stop and
\* co2_monitor_free; a redraw of the last successful snapshot in between
\* lights it again.
CONSTANTS
    v1 = v1
    v2 = v2
    v3 = v3
    NoReading = NoReading
    Values <- MCValues
    MaxFaults = 0

SPECIFICATION Spec

INVARIANT LedOffAfterExit
