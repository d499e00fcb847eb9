SPECIFICATION Spec
CONSTANTS
    None = None
    ShortIdText = ShortIdText
    Short <- MCShort
    History <- MCHistory
    InitialStores <- MCInitialStores
    Queries <- MCQueries
    MinPageSize = 2
    MaxPageSize = 5
    DefaultPageSize = 2
    MaxWrites = 0
INVARIANT
    CursorsAreAccepted
CHECK_DEADLOCK FALSE
