SPECIFICATION Spec
CONSTANTS
    Block <- MCBlock
    Origin <- MCOrigin
    Parent <- MCParent
    Slot <- MCSlot
    Ancestors <- MCAncestors
    None = None
    Starts <- MCStarts
    Window = 2
    WordSize = 256
    MaxReplies = 2
INVARIANTS
    TypeOK
    WindowTelescopes
PROPERTIES
    NeverOverHundred
    NeverSyncedTooSoon
    StatusSettles
CHECK_DEADLOCK FALSE
