\* Two seeks, served, refused or superseded, the application or a failing sink ending the run.
SPECIFICATION Spec
CONSTANTS
    Leader = lead
    Followers = {}
    Branches = {b1}
    BranchDrop = FALSE
    Kinds = {"flush"}
    Holds = {TRUE, FALSE}
    MayRefuse = TRUE
    AppShutsDown = TRUE
    LinkCapacity = 1
    MaxSeeks = 2
    MaxFaults = 1
INVARIANTS StreamEndIsReal StaleEosIsOld HeldRunStaysUp
PROPERTIES TicketResolves RunEnds FaultEndsRun
CHECK_DEADLOCK TRUE
