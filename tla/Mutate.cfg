\* Three operations of any kind on the edge, with deadlines; an element may fail.
SPECIFICATION Spec
CONSTANTS
    Ops = {"insert", "remove", "replace", "set"}
    Timed = TRUE
    LinkCapacity = 1
    MaxFrames = 3
    MaxOps = 3
    MaxFaults = 1
INVARIANTS LinkInOnePlace NoFrameLost TimedOutUnchanged
PROPERTIES RequestAnswered AllArmsEnd
CHECK_DEADLOCK FALSE
