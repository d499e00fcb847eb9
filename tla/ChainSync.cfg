SPECIFICATION Spec
CONSTANTS
    Block <- MCBlock
    Origin <- MCOrigin
    Parent <- MCParent
    Slot <- MCSlot
    Ancestors <- MCAncestors
    Workers = {marlowe}
    Concurrent = TRUE
    None = None
    MaxSwitches = 2
    MaxFaults = 2
INVARIANTS
    TypeOK
    NoRollbackPanic
    ResumePointIsHandled
    PublishedOnOneChain
PROPERTIES
    WorkersFollowAChain
    CatchesUp
CHECK_DEADLOCK FALSE
