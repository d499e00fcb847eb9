SPECIFICATION Spec
CONSTANTS
    Networks <- MCNetworks
    SlotConfigs <- MCSlotConfigs
    Subscribers = {s1, s2}
    Filters <- MCFilters
    Events <- MCEvents
    Capacity = 2
    None = None
    MaxEvents = 3
INVARIANTS
    TypeOK
    NothingLostOnTheWay
    NoGaps
PROPERTY
    EverythingDelivered
CHECK_DEADLOCK FALSE
