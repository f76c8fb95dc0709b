\* A plain source and a held one on a pool of one buffer.
SPECIFICATION WaitSpec
CONSTANTS
    Sources = {s1, s2}
    HeldSources = {s2}
    Buffers = {b1}
    NoSource = NoSource
    MaxFrames = 2
    MaxUnblocks = 2
INVARIANTS NoForgottenSource OneLifePerRelease
PROPERTIES SourcesGoOn RunEndStops
CHECK_DEADLOCK FALSE
