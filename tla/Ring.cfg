\* Three slots, so that a frame is on loan, one waits and the ring fills.
SPECIFICATION Spec
CONSTANTS
    N = 3
    MaxFrames = 6
    MaxLimit = 2
    CounterSpan = 2
    NoLimit = NoLimit
    Torn = Torn
INVARIANTS
    LentFrameStable
    RingHoldsPublished
    RecoverDropsBacklog
PROPERTIES
    PublishedTaken
CHECK_DEADLOCK FALSE
