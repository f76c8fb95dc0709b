\* A sender that may crash and be restarted, over a network that delays, loses or repeats.
SPECIFICATION Spec
CONSTANTS
    Period = 8
    Offsets = {6}
    Hold = 15
    Reorder = 1
    MaxRequests = 4
    MaxNacked = 2
    MaxTracked = 2
    Depth = 3
    Keep = 16
    ReportEvery = 3
    Lead = 1
    MaxDelay = 2
    MaxSent = 3
    MaxLives = 2
    MaxFaults = 2
INVARIANTS
    LossesRecovered
    OutputOnTime
PROPERTIES
    ReleasedInOrder
