\* Every policy; a lossless link is shared by the original handle and a clone.
SPECIFICATION Spec
CONSTANTS
    Senders = {s1, s2}
    Original = s1
    Capacity = 2
    Policies = {"Block", "DropOldest", "DropNewest"}
    MaxPush = 4
INVARIANTS
    NoLostWakeup
    EachPacketOnce
    PerSenderOrder
    EvictionFreesASlot
PROPERTIES
    ImplementsLink
