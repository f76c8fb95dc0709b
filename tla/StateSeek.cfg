\* Scrubbing a pipeline that has not played, on one executor thread.
SPECIFICATION Spec
CONSTANTS
    Sinks = {k1, k2}
    Drivers = {d1}
    Targets = {"Null", "Paused"}
    Threaded = FALSE
    Patient = TRUE
    LinkCapacity = 1
    Ending = FALSE
    MaxSeeks = 3
    MaxOps = 5
INVARIANTS
    PrerolledMeansAll
    ShowsTheTarget
PROPERTIES
    AwaitResolves
CHECK_DEADLOCK FALSE
