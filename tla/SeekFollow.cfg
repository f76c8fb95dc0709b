\* Two sources sought together, with a sink each, up to the run's end.
SPECIFICATION Spec
CONSTANTS
    Leader = lead
    Followers = {next}
    Branches = {b1}
    BranchDrop = FALSE
    Kinds = {"flush", "loop"}
    Holds = {FALSE}
    MayRefuse = FALSE
    AppShutsDown = FALSE
    LinkCapacity = 1
    MaxSeeks = 1
    MaxFaults = 0
PROPERTIES RunEnds
CHECK_DEADLOCK FALSE
