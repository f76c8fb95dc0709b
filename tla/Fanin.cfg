\* Two callers add inputs to a muxer of two pads over links of one packet.
SPECIFICATION Spec
CONSTANTS
    Callers = {c1, c2}
    MaxInputs = 2
    Capacity = 1
    MaxFrames = 1
    MaxAdds = 2
    Faults = TRUE
INVARIANTS PadsDistinct ShownAsAnnounced EosStandsForAll
PROPERTIES AddAnswered RunEnds
CHECK_DEADLOCK FALSE
