\* Both joins: an initial arm, two more sent later.
SPECIFICATION Spec
CONSTANTS
    Initial = 1
    MaxSends = 2
    Threads = {t1}
    TaskWakers = {w1, w2}
    None = None
    Kinds = {TRUE, FALSE}
INVARIANTS
    NoStrandedArm
    NoStrandedArrival
PROPERTIES
    JoinResolves
CHECK_DEADLOCK FALSE
