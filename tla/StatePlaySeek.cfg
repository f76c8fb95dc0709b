\* Seeking after pausing a pipeline that played, on one executor thread.
SPECIFICATION Spec
CONSTANTS
    Sinks = {k1, k2}
    Drivers = {d1}
    Targets = {"Paused", "Playing"}
    Threaded = FALSE
    Patient = TRUE
    LinkCapacity = 0
    Ending = FALSE
    MaxSeeks = 1
    MaxOps = 4
PROPERTIES
    AwaitResolves
CHECK_DEADLOCK FALSE
