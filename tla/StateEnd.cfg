\* A stream that may end while it prerolls, on several threads.
SPECIFICATION Spec
CONSTANTS
    Sinks = {k1, k2}
    Drivers = {d1, d2}
    Targets = {"Null", "Paused", "Playing"}
    Threaded = TRUE
    Patient = TRUE
    LinkCapacity = 0
    Ending = TRUE
    MaxSeeks = 0
    MaxOps = 1
PROPERTIES
    AwaitResolves
CHECK_DEADLOCK FALSE
